---- MODULE Spec2Model ----
(***************************************************************************)
(* A model of the concurrent open-addressed hash engine of                 *)
(* src/src/storage/hash/hash_engine.c (the dual-table revision with        *)
(* MIGRATE_BATCH_SIZE and migrate_workers).                                 *)
(*                                                                         *)
(* Every thread executes public operations (hash_put, hash_get,            *)
(* hash_delete).  An operation is cut into steps at its accesses to shared *)
(* memory: every atomic load, store or fetch-add of an engine field is a   *)
(* step of its own, and so is every lock-free read of a bucket state.  A   *)
(* bucket critical section that starts and ends in the same function       *)
(* (lock, re-check, compare / write, unlock) is one step, enabled when the *)
(* bucket lock is free; the old-bucket lock of migrate_bucket and the      *)
(* engine lock are held across steps and are modelled as lock words.       *)
(*                                                                         *)
(* Bucket arrays live in a heap of array objects, so that a pointer and a  *)
(* length read by two loads may disagree and a freed array may still be    *)
(* referenced.  Keys and values are byte sequences.  SipHash is modelled   *)
(* as a keyed function of the key bytes (HashSeeds stand for the random    *)
(* per-process key pair).                                                  *)
(***************************************************************************)
EXTENDS Integers, Sequences, FiniteSets, TLC

(* ------------------------------------------------------------------ *)
(* Program constants                                                   *)
(* ------------------------------------------------------------------ *)
MAX_BUCKET_COUNT == 1048576
MIN_BUCKET_COUNT == 16
MIGRATE_BATCH_SIZE == 2
INITIAL_BUCKET_COUNT == 16
BUCKET_EMPTY == 0
BUCKET_OCCUPIED == 1
BUCKET_TOMBSTONE == 2
EINVAL == 22
ENOENT == 2
ENOMEM == 12
ENOSPC == 28

\* The uint32_t fields of struct hash_engine are held as their 32-bit two's
\* complement representative: x + 1 and x - 1 are then the wrapping
\* operations, -1 stands for UINT32_MAX (a counter decremented below 0), and
\* comparisons are the unsigned ones.
U32Ge(a, b) == IF (a < 0) = (b < 0) THEN a >= b ELSE a < 0

(* ------------------------------------------------------------------ *)
(* Bounds of the model                                                 *)
(* ------------------------------------------------------------------ *)
\* number of threads of the concurrent specifications
NThreads == 2
\* operations of the free (unscripted) sequential workload
MaxOps == 5
\* keys the free sequential workload draws from (beyond the prefill keys)
NumKeys == 2
\* operations each thread draws freely in the concurrent free workload
ConcOps == 2
\* The cursor is a uint32_t that every claim increments, also after it has
\* passed the old length.  The model stops counting at CursorCap, above the
\* length of every array it allocates: every claim from there on compares
\* with the old length as the one before it did.
CursorCap == 40

Threads == 1..NThreads
NULL == 0
NoBytes == <<>>

(* ------------------------------------------------------------------ *)
(* Keys, values, hashing                                               *)
(* ------------------------------------------------------------------ *)
\* the one-byte key n
K(n) == <<n>>

\* little-endian number of a byte string
RECURSIVE BytesNum(_)
BytesNum(s) == IF s = <<>> THEN 0 ELSE Head(s) + 256 * BytesNum(Tail(s))

\* siphash(key, key_len, hash_key_0, hash_key_1): a keyed 64-bit function of
\* the key bytes.  The seed stands for the random key pair (k0, k1): seed 1
\* spreads the one-byte keys, seed 2 makes them collide (all keys share the
\* low three bits 7, so every chain of an 8-bucket table starts at slot 7).
siphash(seed, key) ==
    IF seed = 1 THEN BytesNum(key) ELSE 8 * BytesNum(key) + 7

HashSeeds == {1, 2}

compute_hash(seed, key, bucket_count) == siphash(seed, key) % bucket_count

keys_equal(k1, l1, k2, l2) == (l1 = l2) /\ (k1 = k2)

\* a faulty threshold that asks for the grow only above three quarters
needs_grow_Above(count, buckets) == count < 0 \/ 4 * count > 3 * buckets

\* needs_grow: count >= buckets * 0.75; 0.75 is exact in binary floating
\* point, so the comparison is the integer comparison 4*count >= 3*buckets.
needs_grow(count, buckets) == count < 0 \/ 4 * count >= 3 * buckets

\* needs_shrink: buckets > MIN_BUCKET_COUNT && count < buckets * 0.2.  For a
\* bucket count that is no multiple of 5 (all the counts of this model) the
\* double product never crosses an integer: count < buckets/5.
needs_shrink(count, buckets) ==
    buckets > MIN_BUCKET_COUNT /\ count >= 0 /\ 5 * count < buckets

(* ------------------------------------------------------------------ *)
(* State                                                               *)
(* ------------------------------------------------------------------ *)
VARIABLES
    heap,              \* the bucket arrays ever allocated: [alive, len, b]
    hash_buckets,      \* engine->hash_buckets (an index of heap, or NULL)
    bucket_count,      \* engine->bucket_count
    old_buckets,       \* engine->old_buckets
    old_bucket_count,  \* engine->old_bucket_count
    migrate_index,     \* engine->migrate_index
    migrate_workers,   \* engine->migrate_workers
    item_count,        \* engine->item_count
    total_memory,      \* engine->total_memory
    engine_lock,       \* engine->engine_lock: 0, or the thread holding it
    seed,              \* the process-wide SipHash key pair (hash_key_0, hash_key_1)
    siphash_initialized, \* the process-wide flag of init_siphash_keys
    siphash_init_lock, \* the lock of init_siphash_keys: 0, or the thread holding it
    init_req,          \* the bucket count passed to hash_engine_init
    init_rc,           \* <<what hash_engine_init returned>>, <<>> while it runs
    failures,          \* allocation failures the environment may still inject
    pc,                \* per thread: the step it is at
    loc,               \* per thread: the locals of the running operation
    work,              \* per thread: the operations still to invoke
    phase,             \* "boot" (construction), "failed" / "huge" (after it), "pre" (thread 1 alone fills the table), "run", "final" (after the join)
    model,             \* reference map: the set of <<key, value>> put and not deleted
    prev,              \* per thread: the last successful put, if it was the last operation
    obs,               \* per thread: what held of the key when the operation was invoked
    gone,              \* keys whose delete succeeded, with no put of the key during or since
    invoked,           \* the kinds of operation invoked so far
    over,              \* per thread: its last operation was a successful put over a stored key
    seen,              \* the results of the gets made on the engine before it is destroyed and constructed again
    borrow,            \* per thread: the pointer its last successful hash_get returned, until a put or delete of the key is invoked
    ub                 \* the first undefined behaviour executed ("none" if none)

vars == <<heap, hash_buckets, bucket_count, old_buckets, old_bucket_count,
          migrate_index, migrate_workers, item_count, total_memory,
          engine_lock, seed, siphash_initialized, siphash_init_lock,
          init_req, init_rc, failures, pc, loc, work, phase, model, prev,
          obs, gone, invoked, over, seen, borrow, ub>>

engine == <<hash_buckets, bucket_count, old_buckets, old_bucket_count,
            migrate_index, migrate_workers, item_count, total_memory,
            engine_lock>>

\* the process-wide state of hash_engine.c
keys == <<seed, siphash_initialized, siphash_init_lock>>

\* the call of hash_engine_init that constructs the engine
ctor == <<init_req, init_rc>>

ghost == <<model, prev, obs, gone, invoked, over, seen, borrow>>

(* ------------------------------------------------------------------ *)
(* Buckets and arrays                                                  *)
(* ------------------------------------------------------------------ *)
\* bucket_init on calloc'ed memory: state EMPTY, no payload, lock free
EmptyBucket ==
    [state |-> BUCKET_EMPTY, key |-> NoBytes, key_len |-> 0,
     value |-> NoBytes, value_len |-> 0, lock |-> 0]

\* calloc(n, sizeof(struct hash_bucket)) followed by bucket_init of each slot
NewArray(n) == [alive |-> TRUE, len |-> n, b |-> [j \in 1..n |-> EmptyBucket]]

\* &a[j] for the C index j (0-based)
Bkt(a, j) == heap[a].b[j + 1]

SetBkt(h, a, j, bk) == [h EXCEPT ![a].b[j + 1] = bk]

\* bucket_state: atomic load of the state word
bucket_state(bk) == bk.state

\* bucket_make_tombstone_unlocked: release key and value, clear the lengths,
\* store TOMBSTONE (the caller holds the slot lock)
bucket_make_tombstone_unlocked(bk) ==
    [bk EXCEPT !.state = BUCKET_TOMBSTONE, !.key = NoBytes, !.key_len = 0,
               !.value = NoBytes, !.value_len = 0]

\* bucket_destroy: release the payload and clear the slot
bucket_destroy(bk) ==
    [bk EXCEPT !.state = BUCKET_EMPTY, !.key = NoBytes, !.key_len = 0,
               !.value = NoBytes, !.value_len = 0]

\* the write of a new entry into a locked EMPTY or TOMBSTONE slot
\* (insert_into_table, lines 219-225 and 290-296)
Occupy(bk, key, value) ==
    [bk EXCEPT !.state = BUCKET_OCCUPIED, !.key = key, !.key_len = Len(key),
               !.value = value, !.value_len = Len(value)]

\* a faulty replacement that keeps the stored value
ReplaceValue_KeepsOld(bk, value) == bk

\* the in-place replacement of a value (insert_into_table, lines 250-255)
ReplaceValue(bk, value) ==
    [bk EXCEPT !.value = value, !.value_len = Len(value)]

\* What dereferencing &a[j] is: "ok", or the undefined behaviour it executes.
Access(a, j) ==
    IF a = NULL THEN "null"
    ELSE IF ~heap[a].alive THEN "uaf"
    ELSE IF j >= heap[a].len THEN "oob"
    ELSE "ok"

\* The outcomes of an atomic read of the state of &a[j].  A read of a freed
\* array either faults or returns the stale word; a read past the end of an
\* array either faults or returns any state; a NULL dereference faults.
ReadOutcomes(a, j) ==
    CASE Access(a, j) = "ok" -> {[crash |-> FALSE, st |-> bucket_state(Bkt(a, j))]}
      [] Access(a, j) = "null" -> {[crash |-> TRUE, st |-> 0]}
      [] Access(a, j) = "uaf" /\ j < heap[a].len ->
            {[crash |-> TRUE, st |-> 0],
             [crash |-> FALSE, st |-> bucket_state(Bkt(a, j))]}
      [] OTHER -> {[crash |-> TRUE, st |-> 0]} \cup
                  {[crash |-> FALSE, st |-> s] :
                      s \in {BUCKET_EMPTY, BUCKET_TOMBSTONE, BUCKET_OCCUPIED}}

\* The outcomes of locking &a[j]: "go" (the slot is a slot of the model, alive
\* or stale) or "crash".  Locking memory past the end of an array, or through
\* NULL, is not followed further.
LockOutcomes(a, j) ==
    CASE Access(a, j) = "ok" -> {"go"}
      [] Access(a, j) = "uaf" /\ j < heap[a].len -> {"go", "crash"}
      [] OTHER -> {"crash"}

\* the undefined behaviour recorded for an access
UbOf(a, j) == IF ub # "none" \/ Access(a, j) = "ok" THEN ub ELSE Access(a, j)

\* the lock of &a[j] is free (a slot outside the model never blocks)
LockFree(a, j) ==
    IF a = NULL \/ j >= heap[a].len THEN TRUE ELSE Bkt(a, j).lock = 0

(* ------------------------------------------------------------------ *)
(* Threads: program counters and locals                                *)
(* ------------------------------------------------------------------ *)
\* the locals of hash_put / hash_get / hash_delete and of the functions they
\* call, at their values before the operation starts
FreshLocals ==
    [op |-> "none", key |-> NoBytes, val |-> NoBytes,
     \* migrate_some_buckets / finish_resize: old, old_count, idx, i
     \* (old and old_count are also the locals of that name of the operation)
     old |-> NULL, old_count |-> 0, idx |-> 0, i |-> 0, fin |-> FALSE,
     \* migrate_bucket: new_buckets, new_bucket_count
     nb |-> NULL, nbc |-> 0,
     \* hash_put / hash_get / hash_delete: buckets, bucket_count
     buckets |-> NULL, bcount |-> 0,
     \* lookup_in_table / insert_into_table / delete_from_table
     tbl |-> NULL, tcnt |-> 0, index |-> 0, pi |-> 0, tomb |-> -1,
     target |-> 0, ctx |-> "none", ikey |-> NoBytes, ival |-> NoBytes,
     \* hash_put
     is_new |-> 0, existed_in_old |-> 0, old_len |-> 0, new_old_vlen |-> 0,
     \* hash_delete
     deleted_from_old |-> 0, del_len |-> 0,
     \* hash_engine_start_resize
     new_size |-> 0, new_arr |-> NULL,
     \* the values the callers discard: the result of insert_into_table in
     \* migrate_bucket (line 362), the result of hash_engine_start_resize
     \* (lines 553, 647) and the return statement that produced it
     mig_rc |-> 0, sr_rc |-> 0, sr_ret |-> "none",
     \* results
     \* out_ptr is *value as a pointer: <<array, slot>> of the bucket whose
     \* value buffer it points to; out is the bytes it pointed to when set
     rc |-> 0, out |-> NoBytes, out_len |-> 0, out_ptr |-> <<>>]

Goto(t, l) == pc' = [pc EXCEPT ![t] = l]

SetLoc(t, r) == loc' = [loc EXCEPT ![t] = r]

Crash(t) == Goto(t, "crashed")

\* where an operation continues after migrate_some_buckets
AfterMsb(op) ==
    CASE op = "put" -> "put_needs_grow"
      [] op = "get" -> "get_load_bk"
      [] OTHER -> "del_load_old"

\* the locals of an operation once migrate_some_buckets has returned
MsbDone(L) ==
    [L EXCEPT !.old = NULL, !.old_count = 0, !.idx = 0, !.i = 0,
              !.fin = FALSE, !.nb = NULL, !.nbc = 0]

\* the locals once a table function (lookup / insert / delete) has returned
TblDone(L) ==
    [L EXCEPT !.tbl = NULL, !.tcnt = 0, !.index = 0, !.pi = 0, !.tomb = -1,
              !.target = 0, !.ctx = "none", !.ikey = NoBytes, !.ival = NoBytes]

\* the locals at the entry of a table function on (tbl, tcnt) for key k
TblCall(L, tbl, tcnt, ctx, k, v) ==
    [L EXCEPT !.tbl = tbl, !.tcnt = tcnt, !.ctx = ctx, !.ikey = k, !.ival = v,
              !.index = IF tcnt = 0 THEN 0 ELSE compute_hash(seed, k, tcnt),
              !.pi = 0, !.tomb = -1,
              !.target = 0]

(* ------------------------------------------------------------------ *)
(* migrate_some_buckets(engine, MIGRATE_BATCH_SIZE)                    *)
(* ------------------------------------------------------------------ *)
\* atomic_fetch_add(&engine->migrate_workers, 1)
MsbInc(t) ==
    /\ pc[t] = "msb_inc"
    /\ migrate_workers' = migrate_workers + 1
    /\ Goto(t, "msb_load_old")
    /\ UNCHANGED <<heap, hash_buckets, bucket_count, old_buckets,
                   old_bucket_count, migrate_index, item_count, total_memory,
                   engine_lock, keys, ctor, failures, loc, work, phase, ghost, ub>>

\* old = atomic_load(&engine->old_buckets); if (!old) ...
MsbLoadOld(t) ==
    /\ pc[t] = "msb_load_old"
    /\ SetLoc(t, [loc[t] EXCEPT !.old = old_buckets, !.fin = FALSE])
    /\ Goto(t, IF old_buckets = NULL THEN "msb_dec" ELSE "msb_load_cnt")
    /\ UNCHANGED <<heap, engine, keys, ctor, failures, work, phase, ghost, ub>>

\* old_count = atomic_load(&engine->old_bucket_count)
MsbLoadCnt(t) ==
    /\ pc[t] = "msb_load_cnt"
    /\ SetLoc(t, [loc[t] EXCEPT !.old_count = old_bucket_count, !.i = 0])
    /\ Goto(t, "msb_claim")
    /\ UNCHANGED <<heap, engine, keys, ctor, failures, work, phase, ghost, ub>>

\* idx = atomic_fetch_add(&engine->migrate_index, 1); if (idx >= old_count) ...
MsbClaim(t) ==
    /\ pc[t] = "msb_claim"
    /\ migrate_index' = IF migrate_index >= CursorCap THEN migrate_index
                        ELSE migrate_index + 1
    /\ IF U32Ge(migrate_index, loc[t].old_count)
       THEN /\ SetLoc(t, [loc[t] EXCEPT !.fin = TRUE])
            /\ Goto(t, "msb_dec")
       ELSE /\ SetLoc(t, [loc[t] EXCEPT !.idx = migrate_index])
            /\ Goto(t, "mb_state")
    /\ UNCHANGED <<heap, hash_buckets, bucket_count, old_buckets,
                   old_bucket_count, migrate_workers, item_count,
                   total_memory, engine_lock, keys, ctor, failures, work, phase, ghost, ub>>

\* MsbDec with the decrement left out on the exit that calls finish_resize
MsbDec_SkipsOnFinish(t) ==
    /\ pc[t] = "msb_dec"
    /\ migrate_workers' = IF loc[t].fin THEN migrate_workers
                          ELSE migrate_workers - 1
    /\ IF loc[t].fin
       THEN /\ Goto(t, "fr_trylock")
            /\ UNCHANGED loc
       ELSE /\ Goto(t, AfterMsb(loc[t].op))
            /\ SetLoc(t, MsbDone(loc[t]))
    /\ UNCHANGED <<heap, hash_buckets, bucket_count, old_buckets,
                   old_bucket_count, migrate_index, item_count, total_memory,
                   engine_lock, keys, ctor, failures, work, phase, ghost, ub>>

\* atomic_fetch_sub(&engine->migrate_workers, 1), on each of the three exits:
\* no old array, cursor past the end (then finish_resize), batch completed
MsbDec(t) ==
    /\ pc[t] = "msb_dec"
    /\ migrate_workers' = migrate_workers - 1
    /\ IF loc[t].fin
       THEN /\ Goto(t, "fr_trylock")
            /\ UNCHANGED loc
       ELSE /\ Goto(t, AfterMsb(loc[t].op))
            /\ SetLoc(t, MsbDone(loc[t]))
    /\ UNCHANGED <<heap, hash_buckets, bucket_count, old_buckets,
                   old_bucket_count, migrate_index, item_count, total_memory,
                   engine_lock, keys, ctor, failures, work, phase, ghost, ub>>

\* the loop of migrate_some_buckets after migrate_bucket has returned
MbReturnPc(L) == IF L.i + 1 < MIGRATE_BATCH_SIZE THEN "msb_claim" ELSE "msb_dec"

MbReturnLoc(L) ==
    [TblDone(L) EXCEPT !.i = L.i + 1, !.fin = FALSE, !.nb = NULL, !.nbc = 0,
                       !.mig_rc = 0]

(* ------------------------------------------------------------------ *)
(* migrate_bucket(engine, &old[idx])                                   *)
(* ------------------------------------------------------------------ *)
\* state = bucket_state(old_bucket); if (state != BUCKET_OCCUPIED) return;
MbState(t) ==
    /\ pc[t] = "mb_state"
    /\ ub' = UbOf(loc[t].old, loc[t].idx)
    /\ \E o \in ReadOutcomes(loc[t].old, loc[t].idx) :
         IF o.crash
         THEN Crash(t) /\ UNCHANGED loc
         ELSE IF o.st # BUCKET_OCCUPIED
              THEN Goto(t, MbReturnPc(loc[t])) /\ SetLoc(t, MbReturnLoc(loc[t]))
              ELSE Goto(t, "mb_load_new") /\ UNCHANGED loc
    /\ UNCHANGED <<heap, engine, keys, ctor, failures, work, phase, ghost>>

\* new_buckets = atomic_load(&engine->hash_buckets)
MbLoadNew(t) ==
    /\ pc[t] = "mb_load_new"
    /\ SetLoc(t, [loc[t] EXCEPT !.nb = hash_buckets])
    /\ Goto(t, "mb_load_cnt")
    /\ UNCHANGED <<heap, engine, keys, ctor, failures, work, phase, ghost, ub>>

\* new_bucket_count = atomic_load(&engine->bucket_count)
MbLoadCnt(t) ==
    /\ pc[t] = "mb_load_cnt"
    /\ SetLoc(t, [loc[t] EXCEPT !.nbc = bucket_count])
    /\ Goto(t, "mb_lock")
    /\ UNCHANGED <<heap, engine, keys, ctor, failures, work, phase, ghost, ub>>

\* futex_mutex_lock(&old_bucket->lock_futex); re-check OCCUPIED; then call
\* insert_into_table(new_buckets, new_bucket_count, old key, old value)
\* with the old slot's lock held
MbLock(t) ==
    /\ pc[t] = "mb_lock"
    /\ LockFree(loc[t].old, loc[t].idx)
    /\ ub' = UbOf(loc[t].old, loc[t].idx)
    /\ \E o \in LockOutcomes(loc[t].old, loc[t].idx) :
         IF o = "crash"
         THEN Crash(t) /\ UNCHANGED <<loc, heap>>
         ELSE LET bk == Bkt(loc[t].old, loc[t].idx) IN
              IF bk.state # BUCKET_OCCUPIED
              THEN /\ Goto(t, MbReturnPc(loc[t]))
                   /\ SetLoc(t, MbReturnLoc(loc[t]))
                   /\ UNCHANGED heap
              ELSE /\ heap' = SetBkt(heap, loc[t].old, loc[t].idx,
                                     [bk EXCEPT !.lock = t])
                   /\ SetLoc(t, TblCall(loc[t], loc[t].nb, loc[t].nbc, "mig",
                                        bk.key, bk.value))
                   /\ Goto(t, "ins_state")
    /\ UNCHANGED <<engine, keys, ctor, failures, work, phase, ghost>>

\* a faulty move that takes the entry it tombstones off the counters
MbTomb_Uncounts(t) ==
    /\ pc[t] = "mb_tomb"
    /\ ub' = UbOf(loc[t].old, loc[t].idx)
    /\ \E o \in LockOutcomes(loc[t].old, loc[t].idx) :
         IF o = "crash"
         THEN Crash(t) /\ UNCHANGED <<loc, heap, item_count, total_memory>>
         ELSE /\ heap' = SetBkt(heap, loc[t].old, loc[t].idx,
                   [bucket_make_tombstone_unlocked(Bkt(loc[t].old, loc[t].idx))
                       EXCEPT !.lock = 0])
              /\ item_count' = item_count - 1
              /\ total_memory' = total_memory
                     - Bkt(loc[t].old, loc[t].idx).key_len
                     - Bkt(loc[t].old, loc[t].idx).value_len
              /\ Goto(t, MbReturnPc(loc[t]))
              /\ SetLoc(t, MbReturnLoc(loc[t]))
    /\ UNCHANGED <<hash_buckets, bucket_count, old_buckets, old_bucket_count,
                   migrate_index, migrate_workers, engine_lock, keys, ctor,
                   failures, work, phase, ghost>>

\* bucket_make_tombstone_unlocked(old_bucket); futex_mutex_unlock(...)
\* (the result of insert_into_table is not looked at)
MbTomb(t) ==
    /\ pc[t] = "mb_tomb"
    /\ ub' = UbOf(loc[t].old, loc[t].idx)
    /\ \E o \in LockOutcomes(loc[t].old, loc[t].idx) :
         IF o = "crash"
         THEN Crash(t) /\ UNCHANGED <<loc, heap>>
         ELSE /\ heap' = SetBkt(heap, loc[t].old, loc[t].idx,
                   [bucket_make_tombstone_unlocked(Bkt(loc[t].old, loc[t].idx))
                       EXCEPT !.lock = 0])
              /\ Goto(t, MbReturnPc(loc[t]))
              /\ SetLoc(t, MbReturnLoc(loc[t]))
    /\ UNCHANGED <<engine, keys, ctor, failures, work, phase, ghost>>

(* ------------------------------------------------------------------ *)
(* finish_resize(engine)                                               *)
(* ------------------------------------------------------------------ *)
\* where finish_resize returns to: the operation, after migrate_some_buckets
FrReturn(t) ==
    /\ Goto(t, AfterMsb(loc[t].op))
    /\ SetLoc(t, MsbDone(loc[t]))

\* if (futex_mutex_trylock(&engine->engine_lock) != 0) return;
FrTrylock(t) ==
    /\ pc[t] = "fr_trylock"
    /\ IF engine_lock # 0
       THEN FrReturn(t) /\ UNCHANGED engine_lock
       ELSE /\ engine_lock' = t
            /\ Goto(t, "fr_load_old")
            /\ UNCHANGED loc
    /\ UNCHANGED <<heap, hash_buckets, bucket_count, old_buckets,
                   old_bucket_count, migrate_index, migrate_workers,
                   item_count, total_memory, keys, ctor, failures, work, phase, ghost, ub>>

\* old = atomic_load(&engine->old_buckets); if (!old) { unlock; return; }
FrLoadOld(t) ==
    /\ pc[t] = "fr_load_old"
    /\ IF old_buckets = NULL
       THEN FrReturn(t) /\ engine_lock' = 0
       ELSE /\ SetLoc(t, [loc[t] EXCEPT !.old = old_buckets])
            /\ Goto(t, "fr_workers")
            /\ UNCHANGED engine_lock
    /\ UNCHANGED <<heap, hash_buckets, bucket_count, old_buckets,
                   old_bucket_count, migrate_index, migrate_workers,
                   item_count, total_memory, keys, ctor, failures, work, phase, ghost, ub>>

\* workers = atomic_load(&engine->migrate_workers); if (workers > 0) { unlock; return; }
FrWorkers(t) ==
    /\ pc[t] = "fr_workers"
    /\ IF migrate_workers # 0
       THEN FrReturn(t) /\ engine_lock' = 0
       ELSE /\ Goto(t, "fr_load_cnt")
            /\ UNCHANGED <<loc, engine_lock>>
    /\ UNCHANGED <<heap, hash_buckets, bucket_count, old_buckets,
                   old_bucket_count, migrate_index, migrate_workers,
                   item_count, total_memory, keys, ctor, failures, work, phase, ghost, ub>>

\* old_count = atomic_load(&engine->old_bucket_count)
FrLoadCnt(t) ==
    /\ pc[t] = "fr_load_cnt"
    /\ SetLoc(t, [loc[t] EXCEPT !.old_count = old_bucket_count, !.i = 0])
    /\ Goto(t, "fr_destroy")
    /\ UNCHANGED <<heap, engine, keys, ctor, failures, work, phase, ghost, ub>>

\* for (i = 0; i < old_count; i++) bucket_destroy(&old[i]); free(old);
\* one step per bucket_destroy (which takes the slot's lock), one for free
FrDestroy(t) ==
    /\ pc[t] = "fr_destroy"
    /\ IF loc[t].i < loc[t].old_count
       THEN /\ LockFree(loc[t].old, loc[t].i)
            /\ ub' = UbOf(loc[t].old, loc[t].i)
            /\ IF Access(loc[t].old, loc[t].i) # "ok"
               THEN Crash(t) /\ UNCHANGED <<loc, heap>>
               ELSE /\ heap' = SetBkt(heap, loc[t].old, loc[t].i,
                                      bucket_destroy(Bkt(loc[t].old, loc[t].i)))
                    /\ SetLoc(t, [loc[t] EXCEPT !.i = loc[t].i + 1])
                    /\ UNCHANGED pc
       ELSE /\ ub' = IF ub = "none" /\ ~heap[loc[t].old].alive
                     THEN "double_free" ELSE ub
            /\ heap' = [heap EXCEPT ![loc[t].old].alive = FALSE]
            /\ Goto(t, "fr_clear_old")
            /\ UNCHANGED loc
    /\ UNCHANGED <<engine, keys, ctor, failures, work, phase, ghost>>

\* atomic_store(&engine->old_buckets, NULL)
FrClearOld(t) ==
    /\ pc[t] = "fr_clear_old"
    /\ old_buckets' = NULL
    /\ Goto(t, "fr_clear_cnt")
    /\ UNCHANGED <<heap, hash_buckets, bucket_count, old_bucket_count,
                   migrate_index, migrate_workers, item_count, total_memory,
                   engine_lock, keys, ctor, failures, loc, work, phase, ghost, ub>>

\* atomic_store(&engine->old_bucket_count, 0)
FrClearCnt(t) ==
    /\ pc[t] = "fr_clear_cnt"
    /\ old_bucket_count' = 0
    /\ Goto(t, "fr_clear_idx")
    /\ UNCHANGED <<heap, hash_buckets, bucket_count, old_buckets,
                   migrate_index, migrate_workers, item_count, total_memory,
                   engine_lock, keys, ctor, failures, loc, work, phase, ghost, ub>>

\* atomic_store(&engine->migrate_index, 0); futex_mutex_unlock(&engine->engine_lock)
FrClearIdx(t) ==
    /\ pc[t] = "fr_clear_idx"
    /\ migrate_index' = 0
    /\ engine_lock' = 0
    /\ FrReturn(t)
    /\ UNCHANGED <<heap, hash_buckets, bucket_count, old_buckets,
                   old_bucket_count, migrate_workers, item_count,
                   total_memory, keys, ctor, failures, work, phase, ghost, ub>>

(* ------------------------------------------------------------------ *)
(* Table functions: common parts                                       *)
(* ------------------------------------------------------------------ *)
\* the slot the probe loop is at: (index + i) % bucket_count
Probe(L) == (L.index + L.pi) % L.tcnt

\* compute_hash divides by bucket_count: with a count of 0 the division is
\* undefined (a trap, or a quotient of 0 and a loop that never runs)
DivOutcomes(L) == IF L.tcnt = 0 THEN {"crash", "skip"} ELSE {"go"}

UbDiv(L) == IF ub = "none" /\ L.tcnt = 0 THEN "div0" ELSE ub

\* malloc: fails only when the environment injects a failure
AllocOutcomes == IF failures > 0 THEN {"ok", "fail"} ELSE {"ok"}

(* ------------------------------------------------------------------ *)
(* lookup_in_table(buckets, bucket_count, key, ...)                    *)
(* ------------------------------------------------------------------ *)
\* return rc from lookup_in_table to hash_get
LkReturn(t, L, rc, value, value_len) ==
    IF L.ctx = "get_new" /\ rc # 0
    THEN /\ Goto(t, "get_load_old")
         /\ SetLoc(t, [TblDone(L) EXCEPT !.rc = rc])
    ELSE /\ Goto(t, "ret")
         /\ SetLoc(t, [TblDone(L) EXCEPT
                          !.rc = rc, !.out = value, !.out_len = value_len,
                          !.out_ptr = IF rc = 0 THEN <<L.tbl, Probe(L)>>
                                      ELSE <<>>])

\* the `continue` of the probe loop
LkContinue(t, L) ==
    IF L.pi + 1 < L.tcnt
    THEN Goto(t, "lk_state") /\ SetLoc(t, [L EXCEPT !.pi = L.pi + 1])
    ELSE LkReturn(t, L, -ENOENT, NoBytes, 0)

\* state = bucket_state(bucket): EMPTY ends the chain, TOMBSTONE is skipped
LkState(t) ==
    /\ pc[t] = "lk_state"
    /\ LET L == loc[t] IN
       \E d \in DivOutcomes(L) :
         IF d # "go"
         THEN /\ ub' = UbDiv(L)
              /\ IF d = "crash" THEN Crash(t) /\ UNCHANGED loc
                 ELSE LkReturn(t, L, -ENOENT, NoBytes, 0)
         ELSE /\ ub' = UbOf(L.tbl, Probe(L))
              /\ \E o \in ReadOutcomes(L.tbl, Probe(L)) :
                   IF o.crash THEN Crash(t) /\ UNCHANGED loc
                   ELSE IF o.st = BUCKET_EMPTY
                        THEN LkReturn(t, L, -ENOENT, NoBytes, 0)
                   ELSE IF o.st = BUCKET_TOMBSTONE
                        THEN LkContinue(t, L)
                   ELSE Goto(t, "lk_lock") /\ UNCHANGED loc
    /\ UNCHANGED <<heap, engine, keys, ctor, failures, work, phase, ghost>>

\* lock the slot, re-check OCCUPIED, compare the key, copy out value and length
LkLock(t) ==
    /\ pc[t] = "lk_lock"
    /\ LET L == loc[t] IN
       /\ LockFree(L.tbl, Probe(L))
       /\ ub' = UbOf(L.tbl, Probe(L))
       /\ \E o \in LockOutcomes(L.tbl, Probe(L)) :
            IF o = "crash" THEN Crash(t) /\ UNCHANGED loc
            ELSE LET bk == Bkt(L.tbl, Probe(L)) IN
                 IF bk.state # BUCKET_OCCUPIED
                 THEN LkContinue(t, L)
                 ELSE IF keys_equal(bk.key, bk.key_len, L.ikey, Len(L.ikey))
                      THEN LkReturn(t, L, 0, bk.value, bk.value_len)
                      ELSE LkContinue(t, L)
    /\ UNCHANGED <<heap, engine, keys, ctor, failures, work, phase, ghost>>

(* ------------------------------------------------------------------ *)
(* insert_into_table(buckets, bucket_count, key, value, &is_new, &old_value_len) *)
(* ------------------------------------------------------------------ *)
\* return rc from insert_into_table: to migrate_bucket, which ignores it, or
\* to hash_put, which returns a failure at once
InsReturn(t, L, rc, is_new, ovl) ==
    IF L.ctx = "mig"
    THEN Goto(t, "mb_tomb") /\ SetLoc(t, [TblDone(L) EXCEPT !.mig_rc = rc])
    ELSE IF rc # 0
         THEN Goto(t, "ret") /\ SetLoc(t, [TblDone(L) EXCEPT !.rc = rc])
         ELSE /\ Goto(t, "put_account")
              /\ SetLoc(t, [TblDone(L) EXCEPT !.rc = 0, !.is_new = is_new,
                                              !.new_old_vlen = ovl])

\* the `continue` of the probe loop; after the loop comes the tail (line 264)
InsContinue(t, L) ==
    /\ Goto(t, IF L.pi + 1 < L.tcnt THEN "ins_state" ELSE "ins_tail")
    /\ SetLoc(t, [L EXCEPT !.pi = L.pi + 1])

\* a faulty probe that forgets the tombstones it has passed
InsState_NoTombstone(t) ==
    /\ pc[t] = "ins_state"
    /\ LET L == loc[t] IN
       \E d \in DivOutcomes(L) :
         IF d # "go"
         THEN /\ ub' = UbDiv(L)
              /\ IF d = "crash" THEN Crash(t) /\ UNCHANGED loc
                 ELSE Goto(t, "ins_tail") /\ UNCHANGED loc
         ELSE /\ ub' = UbOf(L.tbl, Probe(L))
              /\ \E o \in ReadOutcomes(L.tbl, Probe(L)) :
                   IF o.crash THEN Crash(t) /\ UNCHANGED loc
                   ELSE IF o.st = BUCKET_EMPTY
                        THEN /\ Goto(t, "ins_lock_target")
                             /\ SetLoc(t, [L EXCEPT !.target = Probe(L)])
                   ELSE IF o.st = BUCKET_TOMBSTONE
                        THEN InsContinue(t, L)
                   ELSE Goto(t, "ins_lock_occ") /\ UNCHANGED loc
    /\ UNCHANGED <<heap, engine, keys, ctor, failures, work, phase, ghost>>

\* state = bucket_state(bucket): EMPTY chooses the target (the first
\* tombstone seen, else this slot), TOMBSTONE is remembered and skipped
InsState(t) ==
    /\ pc[t] = "ins_state"
    /\ LET L == loc[t] IN
       \E d \in DivOutcomes(L) :
         IF d # "go"
         THEN /\ ub' = UbDiv(L)
              /\ IF d = "crash" THEN Crash(t) /\ UNCHANGED loc
                 ELSE Goto(t, "ins_tail") /\ UNCHANGED loc
         ELSE /\ ub' = UbOf(L.tbl, Probe(L))
              /\ \E o \in ReadOutcomes(L.tbl, Probe(L)) :
                   IF o.crash THEN Crash(t) /\ UNCHANGED loc
                   ELSE IF o.st = BUCKET_EMPTY
                        THEN /\ Goto(t, "ins_lock_target")
                             /\ SetLoc(t, [L EXCEPT !.target =
                                    IF L.tomb >= 0 THEN L.tomb ELSE Probe(L)])
                   ELSE IF o.st = BUCKET_TOMBSTONE
                        THEN InsContinue(t, [L EXCEPT !.tomb =
                                    IF L.tomb < 0 THEN Probe(L) ELSE L.tomb])
                   ELSE Goto(t, "ins_lock_occ") /\ UNCHANGED loc
    /\ UNCHANGED <<heap, engine, keys, ctor, failures, work, phase, ghost>>

\* lines 198-230: lock the target, re-check EMPTY or TOMBSTONE (else
\* `continue`), allocate the copies, write the entry, store OCCUPIED
InsLockTarget(t) ==
    /\ pc[t] = "ins_lock_target"
    /\ LET L == loc[t] IN
       /\ LockFree(L.tbl, L.target)
       /\ ub' = UbOf(L.tbl, L.target)
       /\ \E o \in LockOutcomes(L.tbl, L.target) :
            IF o = "crash" THEN Crash(t) /\ UNCHANGED <<loc, heap, failures>>
            ELSE LET bk == Bkt(L.tbl, L.target) IN
                 IF bk.state # BUCKET_EMPTY /\ bk.state # BUCKET_TOMBSTONE
                 THEN InsContinue(t, L) /\ UNCHANGED <<heap, failures>>
                 ELSE \E a \in AllocOutcomes :
                        IF a = "fail"
                        THEN /\ InsReturn(t, L, -ENOMEM, 0, 0)
                             /\ failures' = failures - 1
                             /\ UNCHANGED heap
                        ELSE /\ heap' = SetBkt(heap, L.tbl, L.target,
                                               Occupy(bk, L.ikey, L.ival))
                             /\ InsReturn(t, L, 0, 1, 0)
                             /\ UNCHANGED failures
    /\ UNCHANGED <<engine, keys, ctor, work, phase, ghost>>

\* lines 239-261: lock the OCCUPIED slot, re-check, compare the key; on a
\* match replace the value in place (an update: *is_new = 0)
InsLockOcc(t) ==
    /\ pc[t] = "ins_lock_occ"
    /\ LET L == loc[t] IN
       /\ LockFree(L.tbl, Probe(L))
       /\ ub' = UbOf(L.tbl, Probe(L))
       /\ \E o \in LockOutcomes(L.tbl, Probe(L)) :
            IF o = "crash" THEN Crash(t) /\ UNCHANGED <<loc, heap, failures>>
            ELSE LET bk == Bkt(L.tbl, Probe(L)) IN
                 IF bk.state # BUCKET_OCCUPIED
                    \/ ~keys_equal(bk.key, bk.key_len, L.ikey, Len(L.ikey))
                 THEN InsContinue(t, L) /\ UNCHANGED <<heap, failures>>
                 ELSE \E a \in AllocOutcomes :
                        IF a = "fail"
                        THEN /\ InsReturn(t, L, -ENOMEM, 0, 0)
                             /\ failures' = failures - 1
                             /\ UNCHANGED heap
                        ELSE /\ heap' = SetBkt(heap, L.tbl, Probe(L),
                                               ReplaceValue(bk, L.ival))
                             /\ InsReturn(t, L, 0, 0, bk.value_len)
                             /\ UNCHANGED failures
    /\ UNCHANGED <<engine, keys, ctor, work, phase, ghost>>

\* lines 264-304: the whole table was walked without an EMPTY slot or a
\* match: reuse the first tombstone seen if it still is one, else -ENOSPC
InsTail(t) ==
    /\ pc[t] = "ins_tail"
    /\ LET L == loc[t] IN
       IF L.tomb < 0
       THEN /\ InsReturn(t, L, -ENOSPC, 0, 0)
            /\ UNCHANGED <<heap, failures, ub>>
       ELSE /\ LockFree(L.tbl, L.tomb)
            /\ ub' = UbOf(L.tbl, L.tomb)
            /\ \E o \in LockOutcomes(L.tbl, L.tomb) :
                 IF o = "crash" THEN Crash(t) /\ UNCHANGED <<loc, heap, failures>>
                 ELSE LET bk == Bkt(L.tbl, L.tomb) IN
                      IF bk.state # BUCKET_TOMBSTONE
                      THEN InsReturn(t, L, -ENOSPC, 0, 0) /\ UNCHANGED <<heap, failures>>
                      ELSE \E a \in AllocOutcomes :
                             IF a = "fail"
                             THEN /\ InsReturn(t, L, -ENOMEM, 0, 0)
                                  /\ failures' = failures - 1
                                  /\ UNCHANGED heap
                             ELSE /\ heap' = SetBkt(heap, L.tbl, L.tomb,
                                                    Occupy(bk, L.ikey, L.ival))
                                  /\ InsReturn(t, L, 0, 1, 0)
                                  /\ UNCHANGED failures
    /\ UNCHANGED <<engine, keys, ctor, work, phase, ghost>>

(* ------------------------------------------------------------------ *)
(* delete_from_table(buckets, bucket_count, key, &key_len, &value_len) *)
(* ------------------------------------------------------------------ *)
\* return rc from delete_from_table, with the payload length it released:
\* to hash_put (old array), or to hash_delete (old array, current array)
DelReturn(t, L, rc, len) ==
    CASE L.ctx = "put_old" ->
           /\ Goto(t, "put_load_bk")
           /\ SetLoc(t, [TblDone(L) EXCEPT
                  !.existed_in_old = IF rc = 0 THEN 1 ELSE 0, !.old_len = len])
      [] L.ctx = "del_old" ->
           /\ Goto(t, "del_load_bk")
           /\ SetLoc(t, [TblDone(L) EXCEPT
                  !.deleted_from_old = IF rc = 0 THEN 1 ELSE 0, !.old_len = len])
      [] OTHER ->
           /\ Goto(t, "del_account")
           /\ SetLoc(t, [TblDone(L) EXCEPT !.rc = rc, !.del_len = len])

DelContinue(t, L) ==
    IF L.pi + 1 < L.tcnt
    THEN Goto(t, "dt_state") /\ SetLoc(t, [L EXCEPT !.pi = L.pi + 1])
    ELSE DelReturn(t, L, -ENOENT, 0)

\* state = bucket_state(bucket): EMPTY ends the chain, TOMBSTONE is skipped
DtState(t) ==
    /\ pc[t] = "dt_state"
    /\ LET L == loc[t] IN
       \E d \in DivOutcomes(L) :
         IF d # "go"
         THEN /\ ub' = UbDiv(L)
              /\ IF d = "crash" THEN Crash(t) /\ UNCHANGED loc
                 ELSE DelReturn(t, L, -ENOENT, 0)
         ELSE /\ ub' = UbOf(L.tbl, Probe(L))
              /\ \E o \in ReadOutcomes(L.tbl, Probe(L)) :
                   IF o.crash THEN Crash(t) /\ UNCHANGED loc
                   ELSE IF o.st = BUCKET_EMPTY
                        THEN DelReturn(t, L, -ENOENT, 0)
                   ELSE IF o.st = BUCKET_TOMBSTONE
                        THEN DelContinue(t, L)
                   ELSE Goto(t, "dt_lock") /\ UNCHANGED loc
    /\ UNCHANGED <<heap, engine, keys, ctor, failures, work, phase, ghost>>

\* a faulty delete that clears the slot instead of leaving a tombstone
DtLock_Clears(t) ==
    /\ pc[t] = "dt_lock"
    /\ LET L == loc[t] IN
       /\ LockFree(L.tbl, Probe(L))
       /\ ub' = UbOf(L.tbl, Probe(L))
       /\ \E o \in LockOutcomes(L.tbl, Probe(L)) :
            IF o = "crash" THEN Crash(t) /\ UNCHANGED <<loc, heap>>
            ELSE LET bk == Bkt(L.tbl, Probe(L)) IN
                 IF bk.state = BUCKET_OCCUPIED
                    /\ keys_equal(bk.key, bk.key_len, L.ikey, Len(L.ikey))
                 THEN /\ heap' = SetBkt(heap, L.tbl, Probe(L),
                                        bucket_destroy(bk))
                      /\ DelReturn(t, L, 0, bk.key_len + bk.value_len)
                 ELSE DelContinue(t, L) /\ UNCHANGED heap
    /\ UNCHANGED <<engine, keys, ctor, failures, work, phase, ghost>>

\* lock the slot, re-check OCCUPIED, compare the key, tombstone on a match
DtLock(t) ==
    /\ pc[t] = "dt_lock"
    /\ LET L == loc[t] IN
       /\ LockFree(L.tbl, Probe(L))
       /\ ub' = UbOf(L.tbl, Probe(L))
       /\ \E o \in LockOutcomes(L.tbl, Probe(L)) :
            IF o = "crash" THEN Crash(t) /\ UNCHANGED <<loc, heap>>
            ELSE LET bk == Bkt(L.tbl, Probe(L)) IN
                 IF bk.state = BUCKET_OCCUPIED
                    /\ keys_equal(bk.key, bk.key_len, L.ikey, Len(L.ikey))
                 THEN /\ heap' = SetBkt(heap, L.tbl, Probe(L),
                                        bucket_make_tombstone_unlocked(bk))
                      /\ DelReturn(t, L, 0, bk.key_len + bk.value_len)
                 ELSE DelContinue(t, L) /\ UNCHANGED heap
    /\ UNCHANGED <<engine, keys, ctor, failures, work, phase, ghost>>

(* ------------------------------------------------------------------ *)
(* hash_engine_start_resize(engine, new_bucket_count)                  *)
(* ------------------------------------------------------------------ *)
\* unlock the engine lock and return to the caller: hash_put goes on with its
\* insertion whatever the result, hash_delete returns 0
SrReturn(t, rc, ret) ==
    /\ engine_lock' = 0
    /\ IF loc[t].op = "put"
       THEN /\ Goto(t, "put_load_old")
            /\ SetLoc(t, [loc[t] EXCEPT !.new_size = 0, !.new_arr = NULL,
                                        !.sr_rc = rc, !.sr_ret = ret])
       ELSE /\ Goto(t, "ret")
            /\ SetLoc(t, [loc[t] EXCEPT !.new_size = 0, !.new_arr = NULL,
                                        !.sr_rc = rc, !.sr_ret = ret, !.rc = 0])

\* futex_mutex_lock(&engine->engine_lock)
SrLock(t) ==
    /\ pc[t] = "sr_lock"
    /\ engine_lock = 0
    /\ engine_lock' = t
    /\ Goto(t, "sr_check")
    /\ UNCHANGED <<heap, hash_buckets, bucket_count, old_buckets,
                   old_bucket_count, migrate_index, migrate_workers,
                   item_count, total_memory, keys, ctor, failures, loc, work, phase, ghost, ub>>

\* a faulty check that does not look at old_buckets
SrCheck_IgnoresBusy(t) ==
    /\ pc[t] = "sr_check"
    /\ IF \/ loc[t].new_size < MIN_BUCKET_COUNT
          \/ loc[t].new_size > MAX_BUCKET_COUNT
       THEN SrReturn(t, -EINVAL, "range")
       ELSE IF \/ (loc[t].new_size > bucket_count
                      /\ ~needs_grow(item_count, bucket_count))
               \/ (loc[t].new_size <= bucket_count
                      /\ ~needs_shrink(item_count, bucket_count))
       THEN SrReturn(t, 0, "load")
       ELSE Goto(t, "sr_alloc") /\ UNCHANGED <<loc, engine_lock>>
    /\ UNCHANGED <<heap, hash_buckets, bucket_count, old_buckets,
                   old_bucket_count, migrate_index, migrate_workers,
                   item_count, total_memory, keys, ctor, failures, work, phase, ghost, ub>>

\* lines 446-468: a migration in progress, a size out of range, or a load
\* factor that no longer asks for the resize, end the call.  bucket_count
\* changes only under the engine lock, so its loads are one step with the
\* load of item_count.
SrCheck(t) ==
    /\ pc[t] = "sr_check"
    /\ IF old_buckets # NULL
       THEN SrReturn(t, 0, "busy")
       ELSE IF \/ loc[t].new_size < MIN_BUCKET_COUNT
               \/ loc[t].new_size > MAX_BUCKET_COUNT
       THEN SrReturn(t, -EINVAL, "range")
       ELSE IF \/ (loc[t].new_size > bucket_count
                      /\ ~needs_grow(item_count, bucket_count))
               \/ (loc[t].new_size <= bucket_count
                      /\ ~needs_shrink(item_count, bucket_count))
       THEN SrReturn(t, 0, "load")
       ELSE Goto(t, "sr_alloc") /\ UNCHANGED <<loc, engine_lock>>
    /\ UNCHANGED <<heap, hash_buckets, bucket_count, old_buckets,
                   old_bucket_count, migrate_index, migrate_workers,
                   item_count, total_memory, keys, ctor, failures, work, phase, ghost, ub>>

\* a faulty failure path that returns with the engine lock held
SrAlloc_KeepsLock(t) ==
    /\ pc[t] = "sr_alloc"
    /\ \E a \in AllocOutcomes :
         IF a = "fail"
         THEN /\ Goto(t, IF loc[t].op = "put" THEN "put_load_old" ELSE "ret")
              /\ SetLoc(t, [loc[t] EXCEPT !.new_size = 0, !.sr_rc = -ENOMEM,
                                          !.sr_ret = "nomem"])
              /\ failures' = failures - 1
              /\ UNCHANGED <<heap, engine_lock>>
         ELSE /\ heap' = Append(heap, NewArray(loc[t].new_size))
              /\ SetLoc(t, [loc[t] EXCEPT !.new_arr = Len(heap) + 1])
              /\ Goto(t, "sr_store_old")
              /\ UNCHANGED <<failures, engine_lock>>
    /\ UNCHANGED <<hash_buckets, bucket_count, old_buckets,
                   old_bucket_count, migrate_index, migrate_workers,
                   item_count, total_memory, keys, ctor, work, phase, ghost, ub>>

\* new_buckets = calloc(...); bucket_init of every slot
SrAlloc(t) ==
    /\ pc[t] = "sr_alloc"
    /\ \E a \in AllocOutcomes :
         IF a = "fail"
         THEN /\ SrReturn(t, -ENOMEM, "nomem")
              /\ failures' = failures - 1
              /\ UNCHANGED heap
         ELSE /\ heap' = Append(heap, NewArray(loc[t].new_size))
              /\ SetLoc(t, [loc[t] EXCEPT !.new_arr = Len(heap) + 1])
              /\ Goto(t, "sr_store_old")
              /\ UNCHANGED <<failures, engine_lock>>
    /\ UNCHANGED <<hash_buckets, bucket_count, old_buckets,
                   old_bucket_count, migrate_index, migrate_workers,
                   item_count, total_memory, keys, ctor, work, phase, ghost, ub>>

\* atomic_store(&engine->old_buckets, current_buckets)
SrStoreOld(t) ==
    /\ pc[t] = "sr_store_old"
    /\ old_buckets' = hash_buckets
    /\ Goto(t, "sr_store_oldcnt")
    /\ UNCHANGED <<heap, hash_buckets, bucket_count, old_bucket_count,
                   migrate_index, migrate_workers, item_count, total_memory,
                   engine_lock, keys, ctor, failures, loc, work, phase, ghost, ub>>

\* atomic_store(&engine->old_bucket_count, current_count)
SrStoreOldCnt(t) ==
    /\ pc[t] = "sr_store_oldcnt"
    /\ old_bucket_count' = bucket_count
    /\ Goto(t, "sr_store_idx")
    /\ UNCHANGED <<heap, hash_buckets, bucket_count, old_buckets,
                   migrate_index, migrate_workers, item_count, total_memory,
                   engine_lock, keys, ctor, failures, loc, work, phase, ghost, ub>>

\* atomic_store(&engine->migrate_index, 0)
SrStoreIdx(t) ==
    /\ pc[t] = "sr_store_idx"
    /\ migrate_index' = 0
    /\ Goto(t, "sr_store_new")
    /\ UNCHANGED <<heap, hash_buckets, bucket_count, old_buckets,
                   old_bucket_count, migrate_workers, item_count,
                   total_memory, engine_lock, keys, ctor, failures, loc, work, phase, ghost, ub>>

\* atomic_store(&engine->hash_buckets, new_buckets)
SrStoreNew(t) ==
    /\ pc[t] = "sr_store_new"
    /\ hash_buckets' = loc[t].new_arr
    /\ Goto(t, "sr_store_cnt")
    /\ UNCHANGED <<heap, bucket_count, old_buckets, old_bucket_count,
                   migrate_index, migrate_workers, item_count, total_memory,
                   engine_lock, keys, ctor, failures, loc, work, phase, ghost, ub>>

\* atomic_store(&engine->bucket_count, new_bucket_count); unlock; return 0
SrStoreCnt(t) ==
    /\ pc[t] = "sr_store_cnt"
    /\ bucket_count' = loc[t].new_size
    /\ SrReturn(t, 0, "done")
    /\ UNCHANGED <<heap, hash_buckets, old_buckets, old_bucket_count,
                   migrate_index, migrate_workers, item_count, total_memory,
                   keys, ctor, failures, work, phase, ghost, ub>>

(* ------------------------------------------------------------------ *)
(* hash_get                                                            *)
(* ------------------------------------------------------------------ *)
\* buckets = atomic_load(&engine->hash_buckets)
GetLoadBk(t) ==
    /\ pc[t] = "get_load_bk"
    /\ SetLoc(t, [loc[t] EXCEPT !.buckets = hash_buckets])
    /\ Goto(t, "get_load_cnt")
    /\ UNCHANGED <<heap, engine, keys, ctor, failures, work, phase, ghost, ub>>

\* bucket_count = atomic_load(&engine->bucket_count); lookup_in_table(...)
GetLoadCnt(t) ==
    /\ pc[t] = "get_load_cnt"
    /\ SetLoc(t, TblCall([loc[t] EXCEPT !.bcount = bucket_count],
                         loc[t].buckets, bucket_count, "get_new",
                         loc[t].key, NoBytes))
    /\ Goto(t, "lk_state")
    /\ UNCHANGED <<heap, engine, keys, ctor, failures, work, phase, ghost, ub>>

\* a faulty hash_get that returns the miss in the current array without
\* looking in the old array
GetLoadOld_SkipsOld(t) ==
    /\ pc[t] = "get_load_old"
    /\ SetLoc(t, [loc[t] EXCEPT !.old = NULL])
    /\ Goto(t, "ret")
    /\ UNCHANGED <<heap, engine, keys, ctor, failures, work, phase, ghost, ub>>

\* old = atomic_load(&engine->old_buckets); if (old) ... ; return rc
GetLoadOld(t) ==
    /\ pc[t] = "get_load_old"
    /\ SetLoc(t, [loc[t] EXCEPT !.old = old_buckets])
    /\ Goto(t, IF old_buckets = NULL THEN "ret" ELSE "get_load_oldcnt")
    /\ UNCHANGED <<heap, engine, keys, ctor, failures, work, phase, ghost, ub>>

\* old_count = atomic_load(&engine->old_bucket_count); lookup_in_table(old, ...)
GetLoadOldCnt(t) ==
    /\ pc[t] = "get_load_oldcnt"
    /\ SetLoc(t, TblCall([loc[t] EXCEPT !.old_count = old_bucket_count],
                         loc[t].old, old_bucket_count, "get_old",
                         loc[t].key, NoBytes))
    /\ Goto(t, "lk_state")
    /\ UNCHANGED <<heap, engine, keys, ctor, failures, work, phase, ghost, ub>>

(* ------------------------------------------------------------------ *)
(* hash_put                                                            *)
(* ------------------------------------------------------------------ *)
\* if (needs_grow(engine)): the loads of item_count and bucket_count
PutNeedsGrow(t) ==
    /\ pc[t] = "put_needs_grow"
    /\ Goto(t, IF needs_grow(item_count, bucket_count)
               THEN "put_load_cur" ELSE "put_load_old")
    /\ UNCHANGED <<heap, engine, keys, ctor, failures, loc, work, phase, ghost, ub>>

\* current = atomic_load(&engine->bucket_count); new_size = current * 2;
\* if (new_size <= MAX_BUCKET_COUNT) hash_engine_start_resize(engine, new_size)
PutLoadCur(t) ==
    /\ pc[t] = "put_load_cur"
    /\ IF bucket_count * 2 <= MAX_BUCKET_COUNT
       THEN /\ SetLoc(t, [loc[t] EXCEPT !.new_size = bucket_count * 2])
            /\ Goto(t, "sr_lock")
       ELSE Goto(t, "put_load_old") /\ UNCHANGED loc
    /\ UNCHANGED <<heap, engine, keys, ctor, failures, work, phase, ghost, ub>>

\* old = atomic_load(&engine->old_buckets); if (old) ...
PutLoadOld(t) ==
    /\ pc[t] = "put_load_old"
    /\ SetLoc(t, [loc[t] EXCEPT !.old = old_buckets])
    /\ Goto(t, IF old_buckets = NULL THEN "put_load_bk" ELSE "put_load_oldcnt")
    /\ UNCHANGED <<heap, engine, keys, ctor, failures, work, phase, ghost, ub>>

\* old_count = atomic_load(&engine->old_bucket_count); delete_from_table(old, ...)
PutLoadOldCnt(t) ==
    /\ pc[t] = "put_load_oldcnt"
    /\ SetLoc(t, TblCall([loc[t] EXCEPT !.old_count = old_bucket_count],
                         loc[t].old, old_bucket_count, "put_old",
                         loc[t].key, NoBytes))
    /\ Goto(t, "dt_state")
    /\ UNCHANGED <<heap, engine, keys, ctor, failures, work, phase, ghost, ub>>

\* buckets = atomic_load(&engine->hash_buckets)
PutLoadBk(t) ==
    /\ pc[t] = "put_load_bk"
    /\ SetLoc(t, [loc[t] EXCEPT !.buckets = hash_buckets])
    /\ Goto(t, "put_load_cnt")
    /\ UNCHANGED <<heap, engine, keys, ctor, failures, work, phase, ghost, ub>>

\* bucket_count = atomic_load(&engine->bucket_count); insert_into_table(...)
PutLoadCnt(t) ==
    /\ pc[t] = "put_load_cnt"
    /\ SetLoc(t, TblCall([loc[t] EXCEPT !.bcount = bucket_count],
                         loc[t].buckets, bucket_count, "put",
                         loc[t].key, loc[t].val))
    /\ Goto(t, "ins_state")
    /\ UNCHANGED <<heap, engine, keys, ctor, failures, work, phase, ghost, ub>>

\* lines 573-592: the counters after a successful insertion.  A key that is
\* new to the current array and was not in the old array is counted; a key
\* taken out of the old array, or updated in place, only moves total_memory.
\* a faulty accounting that counts a key moved out of the old array as new
PutAccount_CountsMoved(t) ==
    /\ pc[t] = "put_account"
    /\ LET L == loc[t]
           len == Len(L.key) + Len(L.val)
       IN
       IF L.is_new = 1
       THEN /\ item_count' = item_count + 1
            /\ total_memory' = total_memory + len
       ELSE /\ total_memory' = total_memory + Len(L.val) - L.new_old_vlen
            /\ UNCHANGED item_count
    /\ SetLoc(t, [loc[t] EXCEPT !.rc = 0])
    /\ Goto(t, "ret")
    /\ UNCHANGED <<heap, hash_buckets, bucket_count, old_buckets,
                   old_bucket_count, migrate_index, migrate_workers,
                   engine_lock, keys, ctor, failures, work, phase, ghost, ub>>

PutAccount(t) ==
    /\ pc[t] = "put_account"
    /\ LET L == loc[t]
           len == Len(L.key) + Len(L.val)
       IN
       IF L.is_new = 1 /\ L.existed_in_old = 0
       THEN /\ item_count' = item_count + 1
            /\ total_memory' = total_memory + len
       ELSE IF L.existed_in_old = 1
       THEN /\ total_memory' = total_memory - L.old_len + len
            /\ UNCHANGED item_count
       ELSE /\ total_memory' = total_memory + Len(L.val) - L.new_old_vlen
            /\ UNCHANGED item_count
    /\ SetLoc(t, [loc[t] EXCEPT !.rc = 0])
    /\ Goto(t, "ret")
    /\ UNCHANGED <<heap, hash_buckets, bucket_count, old_buckets,
                   old_bucket_count, migrate_index, migrate_workers,
                   engine_lock, keys, ctor, failures, work, phase, ghost, ub>>

(* ------------------------------------------------------------------ *)
(* hash_delete                                                         *)
(* ------------------------------------------------------------------ *)
\* a faulty hash_delete that does not look in the old array
DelLoadOld_SkipsOld(t) ==
    /\ pc[t] = "del_load_old"
    /\ SetLoc(t, [loc[t] EXCEPT !.old = NULL])
    /\ Goto(t, "del_load_bk")
    /\ UNCHANGED <<heap, engine, keys, ctor, failures, work, phase, ghost, ub>>

\* old = atomic_load(&engine->old_buckets); if (old) ...
DelLoadOld(t) ==
    /\ pc[t] = "del_load_old"
    /\ SetLoc(t, [loc[t] EXCEPT !.old = old_buckets])
    /\ Goto(t, IF old_buckets = NULL THEN "del_load_bk" ELSE "del_load_oldcnt")
    /\ UNCHANGED <<heap, engine, keys, ctor, failures, work, phase, ghost, ub>>

\* old_count = atomic_load(&engine->old_bucket_count); delete_from_table(old, ...)
DelLoadOldCnt(t) ==
    /\ pc[t] = "del_load_oldcnt"
    /\ SetLoc(t, TblCall([loc[t] EXCEPT !.old_count = old_bucket_count],
                         loc[t].old, old_bucket_count, "del_old",
                         loc[t].key, NoBytes))
    /\ Goto(t, "dt_state")
    /\ UNCHANGED <<heap, engine, keys, ctor, failures, work, phase, ghost, ub>>

\* buckets = atomic_load(&engine->hash_buckets)
DelLoadBk(t) ==
    /\ pc[t] = "del_load_bk"
    /\ SetLoc(t, [loc[t] EXCEPT !.buckets = hash_buckets])
    /\ Goto(t, "del_load_cnt")
    /\ UNCHANGED <<heap, engine, keys, ctor, failures, work, phase, ghost, ub>>

\* bucket_count = atomic_load(&engine->bucket_count); delete_from_table(buckets, ...)
DelLoadCnt(t) ==
    /\ pc[t] = "del_load_cnt"
    /\ SetLoc(t, TblCall([loc[t] EXCEPT !.bcount = bucket_count],
                         loc[t].buckets, bucket_count, "del_new",
                         loc[t].key, NoBytes))
    /\ Goto(t, "dt_state")
    /\ UNCHANGED <<heap, engine, keys, ctor, failures, work, phase, ghost, ub>>

\* lines 632-641: one decrement of item_count when the key was deleted from
\* either array; total_memory by the lengths of the current array's entry
\* if there was one, else by the old array's
\* a faulty accounting that also counts a delete that found nothing
DelAccount_CountsMiss(t) ==
    /\ pc[t] = "del_account"
    /\ item_count' = item_count - 1
    /\ total_memory' = total_memory -
           (IF loc[t].rc = 0 THEN loc[t].del_len ELSE loc[t].old_len)
    /\ Goto(t, "del_needs_shrink")
    /\ UNCHANGED <<heap, hash_buckets, bucket_count, old_buckets,
                   old_bucket_count, migrate_index, migrate_workers,
                   engine_lock, keys, ctor, failures, loc, work, phase, ghost, ub>>

DelAccount(t) ==
    /\ pc[t] = "del_account"
    /\ LET L == loc[t] IN
       IF L.rc = 0 \/ L.deleted_from_old = 1
       THEN /\ item_count' = item_count - 1
            /\ total_memory' = total_memory -
                   (IF L.rc = 0 THEN L.del_len ELSE L.old_len)
            /\ Goto(t, "del_needs_shrink")
       ELSE /\ Goto(t, "ret")
            /\ UNCHANGED <<item_count, total_memory>>
    /\ UNCHANGED <<heap, hash_buckets, bucket_count, old_buckets,
                   old_bucket_count, migrate_index, migrate_workers,
                   engine_lock, keys, ctor, failures, loc, work, phase, ghost, ub>>

\* if (needs_shrink(engine)): the loads of item_count and bucket_count
DelNeedsShrink(t) ==
    /\ pc[t] = "del_needs_shrink"
    /\ IF needs_shrink(item_count, bucket_count)
       THEN Goto(t, "del_load_cur") /\ UNCHANGED loc
       ELSE Goto(t, "ret") /\ SetLoc(t, [loc[t] EXCEPT !.rc = 0])
    /\ UNCHANGED <<heap, engine, keys, ctor, failures, work, phase, ghost, ub>>

\* current = atomic_load(&engine->bucket_count); new_size = current / 2;
\* if (new_size >= MIN_BUCKET_COUNT) hash_engine_start_resize(engine, new_size)
DelLoadCur(t) ==
    /\ pc[t] = "del_load_cur"
    /\ IF bucket_count \div 2 >= MIN_BUCKET_COUNT
       THEN /\ SetLoc(t, [loc[t] EXCEPT !.new_size = bucket_count \div 2])
            /\ Goto(t, "sr_lock")
       ELSE Goto(t, "ret") /\ SetLoc(t, [loc[t] EXCEPT !.rc = 0])
    /\ UNCHANGED <<heap, engine, keys, ctor, failures, work, phase, ghost, ub>>

(* ------------------------------------------------------------------ *)
(* Invocation and return of the public operations                      *)
(* ------------------------------------------------------------------ *)
Put(k, v) == [op |-> "put", key |-> k, val |-> v]
Get(k) == [op |-> "get", key |-> k, val |-> NoBytes]
Del(k) == [op |-> "del", key |-> k, val |-> NoBytes]
\* hash_engine_init of another engine of the process
InitEngine == [op |-> "init", key |-> NoBytes, val |-> NoBytes]
\* hash_engine_destroy, called when no operation is running
Destroy == [op |-> "destroy", key |-> NoBytes, val |-> NoBytes]
\* hash_engine_init of the destroyed engine, with the count of its first
\* construction
Reinit == [op |-> "boot", key |-> NoBytes, val |-> NoBytes]

\* A workload: `pre` is run by the thread alone before the others start (the
\* caller filling the table), then `script` in order and `budget` operations
\* of `menu`, concurrently with the other threads, then `final` once every
\* thread has finished (the caller after joining the threads).
Work(pre, script, menu, budget, final) ==
    [pre |-> pre, script |-> script, menu |-> menu, budget |-> budget,
     final |-> final]

NoWork == Work(<<>>, <<>>, {}, 0, <<>>)

\* a negative budget: the thread goes on invoking operations of its menu
\* for ever (continuous load), each one when the other threads have
\* returned from theirs or wait for ever
Always == 0 - 1

\* the (key, value) pairs of the OCCUPIED slots of array a, if allocated
Entries(a) ==
    IF a = NULL THEN {}
    ELSE IF ~heap[a].alive THEN {}
    ELSE {<<heap[a].b[j].key, heap[a].b[j].value>> :
             j \in {i \in 1..heap[a].len :
                       bucket_state(heap[a].b[i]) = BUCKET_OCCUPIED}}

\* the pairs held by the current array and the old one
AllEntries == Entries(hash_buckets) \cup Entries(old_buckets)

\* the number of OCCUPIED slots of array a, if allocated
Occupied(a) ==
    IF a = NULL THEN 0
    ELSE IF ~heap[a].alive THEN 0
    ELSE Cardinality({i \in 1..heap[a].len :
                        bucket_state(heap[a].b[i]) = BUCKET_OCCUPIED})

\* thread u will never take a step again: it waits for the lock of a slot
\* that it holds itself (the futex mutex is not recursive)
SelfBlocked(u) ==
    /\ pc[u] \in {"ins_lock_target", "ins_lock_occ"}
    /\ LET j == IF pc[u] = "ins_lock_target" THEN loc[u].target
                ELSE Probe(loc[u])
       IN IF Access(loc[u].tbl, j) = "ok"
          THEN Bkt(loc[u].tbl, j).lock = u
          ELSE FALSE

\* every other thread is idle or will never take a step again
Alone(t) == \A w \in Threads \ {t} : pc[w] = "idle" \/ SelfBlocked(w)

\* What the caller of an operation sees when it invokes it: whether other
\* operations on the key are in flight, and, for an operation that runs with
\* no other operation taking steps (alone), the engine as get_stats and a
\* scan of the arrays show it.
NoObs == [quiet |-> TRUE, noput |-> TRUE, gone |-> FALSE, mig |-> FALSE,
          alone |-> TRUE, held |-> FALSE, cnt |-> 0, mem |-> 0,
          entries |-> {}, old |-> NULL]

\* no operation is in flight
Quiescent == \A t \in Threads : pc[t] = "idle"

\* the concurrent part of every workload has been invoked
RunExhausted == \A t \in Threads : work[t].script = <<>> /\ work[t].budget = 0

\* the part of its workload thread t takes its next operation from
Source(t) ==
    IF phase \in {"boot", "failed", "huge"} THEN "none"
    ELSE IF phase = "dead"
    THEN IF work[t].script # <<>> /\ Head(work[t].script).op = "boot"
         THEN "script" ELSE "none"
    ELSE IF phase = "pre"
    THEN IF work[t].pre # <<>> /\ Quiescent THEN "pre" ELSE "none"
    ELSE IF phase = "run" /\ work[t].script # <<>> THEN "script"
    ELSE IF /\ phase = "run" /\ work[t].budget # 0
            /\ \A u \in Threads : work[u].script = <<>>
            /\ work[t].budget < 0 => Alone(t)
         THEN "menu"
    ELSE IF work[t].final # <<>> /\ RunExhausted /\ Quiescent THEN "final"
    ELSE "none"

\* the operations thread t may invoke next
Choices(t) ==
    CASE Source(t) = "pre" -> {Head(work[t].pre)}
      [] Source(t) = "script" -> {Head(work[t].script)}
      [] Source(t) = "menu" -> work[t].menu
      [] Source(t) = "final" -> {Head(work[t].final)}
      [] OTHER -> {}

\* thread u is inside an operation on key k of one of the kinds ops
InFlight(u, k, ops) == pc[u] # "idle" /\ loc[u].key = k /\ loc[u].op \in ops

\* the value of key k in the reference map (NoBytes if absent)
ModelGet(k) ==
    IF \E p \in model : p[1] = k
    THEN (CHOOSE p \in model : p[1] = k)[2]
    ELSE NoBytes

ModelHas(k) == \E p \in model : p[1] = k

\* the argument checks of hash_put (line 544), hash_get (508), hash_delete (611)
\* a faulty check that lets an empty value through
InvalidArgs_KeyOnly(o) == o.op \in {"put", "get", "del"} /\ o.key = NoBytes

\* lines 508-509, 544-545, 611-612: a NULL or empty key, or for hash_put a
\* NULL or empty value (NoBytes stands for both)
InvalidArgs(o) ==
    /\ o.op \in {"put", "get", "del"}
    /\ o.key = NoBytes \/ (o.op = "put" /\ o.val = NoBytes)

\* the first step of an operation whose arguments are valid
Entry(o) ==
    CASE o.op = "init" -> "isk_check"
      [] o.op = "boot" -> "hei_check"
      [] o.op = "destroy" -> "hed_destroy"
      [] OTHER -> "msb_inc"

\* no pointer handed out
NoBorrow == [key |-> NoBytes, ptr |-> <<>>, val |-> NoBytes]

\* A thread invokes an operation: -EINVAL at once for an empty key or value,
\* else migrate_some_buckets(engine, MIGRATE_BATCH_SIZE) comes first.
Invoke(t) ==
    /\ pc[t] = "idle"
    /\ \E o \in Choices(t) :
         /\ SetLoc(t, [FreshLocals EXCEPT !.op = o.op, !.key = o.key,
                          !.val = o.val,
                          !.rc = IF InvalidArgs(o) THEN -EINVAL ELSE 0])
         /\ Goto(t, IF InvalidArgs(o) THEN "ret" ELSE Entry(o))
         /\ obs' = [u \in Threads |->
                IF u = t
                THEN [quiet |-> ~\E w \in Threads \ {t} :
                                   InFlight(w, o.key, {"put", "del"}),
                      noput |-> ~\E w \in Threads \ {t} :
                                   InFlight(w, o.key, {"put"}),
                      gone |-> o.key \in gone,
                      mig |-> old_buckets # NULL,
                      alone |-> Alone(t),
                      held |-> Alone(t) /\ \E e \in AllEntries : e[1] = o.key,
                      cnt |-> IF Alone(t) THEN item_count ELSE 0,
                      mem |-> IF Alone(t) THEN total_memory ELSE 0,
                      entries |-> IF Alone(t) THEN AllEntries ELSE {},
                      old |-> IF Alone(t) THEN old_buckets ELSE NULL]
                ELSE IF pc[u] = "idle" THEN obs[u]
                ELSE [obs[u] EXCEPT
                        !.quiet = @ /\ (loc[u].key = o.key => o.op = "get"),
                        !.noput = @ /\ (loc[u].key = o.key => o.op # "put"),
                        !.alone = FALSE, !.held = FALSE, !.cnt = 0,
                        !.mem = 0, !.entries = {}, !.old = NULL]]
         /\ gone' = IF o.op = "put" THEN gone \ {o.key} ELSE gone
         /\ borrow' = [u \in Threads |->
                IF \/ o.op \in {"put", "del"} /\ borrow[u].key = o.key
                   \/ o.op = "destroy"
                THEN NoBorrow ELSE borrow[u]]
         /\ invoked' = invoked \cup {o.op} \cup
                IF /\ o.op = "put"
                   /\ \/ ModelHas(o.key)
                      \/ \E w \in Threads \ {t} : InFlight(w, o.key, {"put"})
                THEN {"put_again"} ELSE {}
    /\ work' = [work EXCEPT ![t] =
           CASE Source(t) = "pre" -> [work[t] EXCEPT !.pre = Tail(work[t].pre)]
             [] Source(t) = "script" ->
                  [work[t] EXCEPT !.script = Tail(work[t].script)]
             [] Source(t) = "menu" ->
                  [work[t] EXCEPT !.budget =
                      IF work[t].budget > 0 THEN work[t].budget - 1
                      ELSE work[t].budget]
             [] OTHER -> [work[t] EXCEPT !.final = Tail(work[t].final)]]
    /\ phase' = IF Source(t) = "final" THEN "final" ELSE phase
    /\ UNCHANGED <<heap, engine, keys, ctor, failures, model, prev, over,
                   seen, ub>>

\* The operation returns loc[t].rc (and, for hash_get, out / out_len) to its
\* caller.  The reference map follows the operations that succeeded.
Return(t) ==
    /\ pc[t] = "ret"
    /\ LET L == loc[t] IN
       /\ model' =
            IF L.op = "destroy" THEN {}
            ELSE IF L.op = "put" /\ L.rc = 0
            THEN {p \in model : p[1] # L.key} \cup {<<L.key, L.val>>}
            ELSE IF L.op = "del" /\ L.rc = 0
            THEN {p \in model : p[1] # L.key}
            ELSE model
       /\ prev' = [prev EXCEPT ![t] =
            IF L.op = "put" /\ L.rc = 0 THEN <<L.key, L.val>> ELSE <<>>]
       /\ gone' = IF L.op = "destroy" THEN {}
                  ELSE IF L.op = "del" /\ L.rc = 0 /\ obs[t].noput
                  THEN gone \cup {L.key} ELSE gone
       /\ seen' = IF L.op = "get" /\ \E i \in DOMAIN work[t].script :
                                        work[t].script[i].op = "boot"
                  THEN seen \cup {[key |-> L.key, rc |-> L.rc, out |-> L.out,
                                   out_len |-> L.out_len, cnt |-> item_count]}
                  ELSE seen
    /\ invoked' = IF loc[t].op = "put" /\ loc[t].rc # 0
                  THEN invoked \cup {"put_failed"}
                  ELSE IF loc[t].op = "del" /\ loc[t].rc # 0
                  THEN invoked \cup {"del_failed"}
                  ELSE invoked
    /\ phase' = IF loc[t].op = "destroy" THEN "dead"
                ELSE IF phase = "pre" /\ \A u \in Threads : work[u].pre = <<>>
                THEN "run" ELSE phase
    /\ over' = [over EXCEPT ![t] =
           loc[t].op = "put" /\ loc[t].rc = 0 /\ obs[t].held /\ obs[t].alone]
    /\ borrow' = IF loc[t].op = "get" /\ loc[t].rc = 0
                 THEN [borrow EXCEPT ![t] =
                         [key |-> loc[t].key, ptr |-> loc[t].out_ptr,
                          val |-> loc[t].out]]
                 ELSE borrow
    /\ obs' = [obs EXCEPT ![t] = NoObs]
    /\ SetLoc(t, FreshLocals)
    /\ Goto(t, "idle")
    /\ UNCHANGED <<heap, engine, keys, ctor, failures, work, ub>>

(* ------------------------------------------------------------------ *)
(* hash_engine_init and init_siphash_keys                              *)
(* ------------------------------------------------------------------ *)
\* A count of 2^31 buckets or more (a negative int converted to uint32_t)
\* asks calloc for more than 96 GiB.
Oversize(n) == n < 0

\* where init_siphash_keys returns to: hash_engine_init of the engine goes on
\* to its calloc; in the hash_engine_init of another engine what follows
\* touches that engine only
IskReturn(t) == Goto(t, IF loc[t].op = "boot" THEN "hei_alloc" ELSE "ret")

\* lines 94-105: if (!engine || bucket_count == 0) return -EINVAL; then the
\* lock and the eight fields of the engine are reset
HeiCheck(t) ==
    /\ pc[t] = "hei_check"
    /\ IF init_req = 0
       THEN /\ init_rc' = <<-EINVAL>>
            /\ phase' = "failed"
            /\ Goto(t, "idle")
            /\ SetLoc(t, FreshLocals)
            /\ UNCHANGED engine
       ELSE /\ hash_buckets' = NULL
            /\ bucket_count' = 0
            /\ item_count' = 0
            /\ total_memory' = 0
            /\ old_buckets' = NULL
            /\ old_bucket_count' = 0
            /\ migrate_index' = 0
            /\ migrate_workers' = 0
            /\ engine_lock' = 0
            /\ Goto(t, "isk_check")
            /\ UNCHANGED <<init_rc, phase, loc>>
    /\ UNCHANGED <<heap, keys, init_req, failures, work, ghost, ub>>

\* if (atomic_load(&siphash_initialized)) return;
IskCheck(t) ==
    /\ pc[t] = "isk_check"
    /\ IF siphash_initialized # 0 THEN IskReturn(t) ELSE Goto(t, "isk_lock")
    /\ UNCHANGED <<heap, engine, keys, ctor, failures, loc, work, phase,
                   ghost, ub>>

\* futex_mutex_lock(&siphash_init_lock)
IskLock(t) ==
    /\ pc[t] = "isk_lock"
    /\ siphash_init_lock = 0
    /\ siphash_init_lock' = t
    /\ Goto(t, "isk_recheck")
    /\ UNCHANGED <<heap, engine, seed, siphash_initialized, ctor, failures,
                   loc, work, phase, ghost, ub>>

\* a faulty second check that does not look at the flag
IskRecheck_NoCheck(t) ==
    /\ pc[t] = "isk_recheck"
    /\ Goto(t, "isk_write")
    /\ UNCHANGED <<heap, engine, keys, ctor, failures, loc, work, phase,
                   ghost, ub>>

\* if (atomic_load(&siphash_initialized)) { unlock; return; }
IskRecheck(t) ==
    /\ pc[t] = "isk_recheck"
    /\ IF siphash_initialized # 0
       THEN siphash_init_lock' = 0 /\ IskReturn(t)
       ELSE Goto(t, "isk_write") /\ UNCHANGED siphash_init_lock
    /\ UNCHANGED <<heap, engine, seed, siphash_initialized, ctor, failures,
                   loc, work, phase, ghost, ub>>

\* siphash_init_random_key(&k0, &k1); hash_key_0 = k0; hash_key_1 = k1;
\* siphash_set_key(k0, k1): the pair is whatever the entropy source (or the
\* weak fallback) gives
IskWrite(t) ==
    /\ pc[t] = "isk_write"
    /\ \E k \in HashSeeds : seed' = k
    /\ Goto(t, "isk_flag")
    /\ UNCHANGED <<heap, engine, siphash_initialized, siphash_init_lock, ctor,
                   failures, loc, work, phase, ghost, ub>>

\* atomic_store(&siphash_initialized, 1); futex_mutex_unlock(&siphash_init_lock)
IskFlag(t) ==
    /\ pc[t] = "isk_flag"
    /\ siphash_initialized' = 1
    /\ siphash_init_lock' = 0
    /\ IskReturn(t)
    /\ UNCHANGED <<heap, engine, seed, ctor, failures, loc, work, phase,
                   ghost, ub>>

\* the phase the workload starts in once the engine is constructed
FirstPhase == IF \E t \in Threads : work[t].pre # <<>> THEN "pre" ELSE "run"

\* lines 109-124: calloc of the array, bucket_init of every slot, the stores
\* of hash_buckets and bucket_count, return 0; or return -ENOMEM.  An
\* oversize request fails, or succeeds where the machine has the memory: the
\* model then records the array without its slots and does not follow the
\* run further.
HeiAlloc(t) ==
    /\ pc[t] = "hei_alloc"
    /\ \E a \in AllocOutcomes \cup (IF Oversize(init_req) THEN {"fail"} ELSE {}) :
         IF a = "fail"
         THEN /\ init_rc' = <<-ENOMEM>>
              /\ phase' = "failed"
              /\ failures' = IF failures > 0 THEN failures - 1 ELSE failures
              /\ UNCHANGED <<heap, hash_buckets, bucket_count>>
         ELSE /\ init_rc' = <<0>>
              /\ heap' = Append(heap,
                              IF Oversize(init_req)
                              THEN [alive |-> TRUE, len |-> init_req, b |-> <<>>]
                              ELSE NewArray(init_req))
              /\ hash_buckets' = Len(heap) + 1
              /\ bucket_count' = init_req
              /\ phase' = IF Oversize(init_req) THEN "huge" ELSE FirstPhase
              /\ UNCHANGED failures
    /\ Goto(t, "idle")
    /\ SetLoc(t, FreshLocals)
    /\ UNCHANGED <<old_buckets, old_bucket_count, migrate_index,
                   migrate_workers, item_count, total_memory, engine_lock,
                   keys, init_req, work, ghost, ub>>

(* ------------------------------------------------------------------ *)
(* hash_engine_destroy                                                 *)
(* ------------------------------------------------------------------ *)
\* for (i = 0; i < cnt; i++) bucket_destroy(&a[i]); free(a): the heap h
\* with the slots of array a cleared and the array released
FreeArray(h, a, cnt) ==
    IF a = NULL \/ a > Len(h) THEN h
    ELSE [h EXCEPT ![a] =
            [alive |-> FALSE, len |-> h[a].len,
             b |-> [j \in 1..Len(h[a].b) |->
                       IF j <= cnt THEN bucket_destroy(h[a].b[j])
                       ELSE h[a].b[j]]]]

\* the undefined behaviour of releasing array a of cnt slots
UbFree(u, a, cnt) ==
    IF u # "none" \/ a = NULL THEN u
    ELSE IF ~heap[a].alive THEN "double_free"
    ELSE IF cnt > heap[a].len THEN "oob"
    ELSE u

\* a faulty destructor that releases the current array only
HedDestroy_KeepsOld(t) ==
    /\ pc[t] = "hed_destroy"
    /\ engine_lock = 0
    /\ heap' = FreeArray(heap, hash_buckets, bucket_count)
    /\ ub' = UbFree(ub, hash_buckets, bucket_count)
    /\ hash_buckets' = NULL
    /\ bucket_count' = 0
    /\ item_count' = 0
    /\ total_memory' = 0
    /\ old_buckets' = NULL
    /\ old_bucket_count' = 0
    /\ migrate_index' = 0
    /\ SetLoc(t, [loc[t] EXCEPT !.rc = 0])
    /\ Goto(t, "ret")
    /\ UNCHANGED <<migrate_workers, engine_lock, keys, ctor, failures, work,
                   phase, ghost>>

\* lines 663-692, run with no operation in progress: under engine_lock,
\* every slot of the current array is destroyed and the array freed, then
\* the same for the old array if there is one; the pointers and counters
\* are cleared (migrate_workers is left alone); return 0
HedDestroy(t) ==
    /\ pc[t] = "hed_destroy"
    /\ engine_lock = 0
    /\ heap' = FreeArray(FreeArray(heap, hash_buckets, bucket_count),
                         old_buckets, old_bucket_count)
    /\ ub' = IF old_buckets # NULL /\ old_buckets = hash_buckets
             THEN (IF ub = "none" THEN "double_free" ELSE ub)
             ELSE UbFree(UbFree(ub, hash_buckets, bucket_count),
                         old_buckets, old_bucket_count)
    /\ hash_buckets' = NULL
    /\ bucket_count' = 0
    /\ item_count' = 0
    /\ total_memory' = 0
    /\ old_buckets' = NULL
    /\ old_bucket_count' = 0
    /\ migrate_index' = 0
    /\ SetLoc(t, [loc[t] EXCEPT !.rc = 0])
    /\ Goto(t, "ret")
    /\ UNCHANGED <<migrate_workers, engine_lock, keys, ctor, failures, work,
                   phase, ghost>>

(* ------------------------------------------------------------------ *)
(* Initial states                                                      *)
(* ------------------------------------------------------------------ *)
\* The engine after hash_engine_init(engine, n) has returned 0 (lines
\* 97-124), the threads idle, with the workload of scenario sc.
InitOf(sc) ==
    /\ heap = <<NewArray(sc.n)>>
    /\ hash_buckets = 1
    /\ bucket_count = sc.n
    /\ old_buckets = NULL
    /\ old_bucket_count = 0
    /\ migrate_index = 0
    /\ migrate_workers = 0
    /\ item_count = 0
    /\ total_memory = 0
    /\ engine_lock = 0
    /\ seed = sc.seed
    /\ siphash_initialized = 1
    /\ siphash_init_lock = 0
    /\ init_req = sc.n
    /\ init_rc = <<0>>
    /\ failures = sc.fails
    /\ pc = [t \in Threads |-> "idle"]
    /\ loc = [t \in Threads |-> FreshLocals]
    /\ work = [t \in Threads |-> IF t <= Len(sc.work) THEN sc.work[t] ELSE NoWork]
    /\ phase = IF \E t \in 1..Len(sc.work) : sc.work[t].pre # <<>>
               THEN "pre" ELSE "run"
    /\ model = {}
    /\ prev = [t \in Threads |-> <<>>]
    /\ obs = [t \in Threads |-> NoObs]
    /\ gone = {}
    /\ invoked = {}
    /\ over = [t \in Threads |-> FALSE]
    /\ borrow = [t \in Threads |-> NoBorrow]
    /\ seen = {}
    /\ ub = "none"

V1 == <<1>>
V2 == <<2, 2>>

\* the puts of the keys K(lo) .. K(hi), in order, all of value v
PutRange(lo, hi, v) == [j \in 1..(hi - lo + 1) |-> Put(K(lo + j - 1), v)]

\* every operation on the keys ks with the values V1, V2
Menu(ks) ==
    {Put(k, v) : k \in ks, v \in {V1, V2}} \cup {Get(k) : k \in ks}
        \cup {Del(k) : k \in ks}

\* keys that share slot 1 of an 8-bucket table under seed 1
FreeKeys == {K(8 * j + 1) : j \in 0..(NumKeys - 1)}

\* Sequential, free: on 8 buckets, seven puts (the seventh starts the grow to
\* 16), then any MaxOps operations on FreeKeys, which carry the migration.
SeqFree(sd) ==
    [n |-> 8, seed |-> sd, fails |-> 0,
     work |-> <<Work(<<>>, PutRange(1, 7, V1), Menu(FreeKeys), MaxOps, <<>>)>>]

\* Sequential, free, on a table of 2 buckets that can never grow (4 is below
\* MIN_BUCKET_COUNT): any MaxOps operations on three colliding keys.
SeqTiny ==
    [n |-> 2, seed |-> 1, fails |-> 0,
     work |-> <<Work(<<>>, <<>>, Menu({K(1), K(3), K(5)}), MaxOps, <<>>)>>]

\* Sequential, scripted: on 32 buckets, two keys in the last two slots, a
\* delete that starts the shrink to 16, fifteen puts of new keys while the
\* migration runs, then gets and puts of the first two keys.
SeqShrink ==
    [n |-> 32, seed |-> 1, fails |-> 0,
     work |-> <<Work(<<>>,
                     <<Put(K(30), V1), Put(K(31), V2), Put(K(1), V1),
                       Del(K(1))>> \o PutRange(100, 114, V1)
                       \o <<Get(K(31)), Get(K(30)), Put(K(30), V2),
                            Get(K(30)), Put(K(31), V1), Get(K(31))>>,
                     {}, 0, <<>>)>>]

\* the gets of the keys K(lo) .. K(hi), in order
GetRange(lo, hi) == [j \in 1..(hi - lo + 1) |-> Get(K(lo + j - 1))]

\* Sequential, scripted: on 8 buckets, thirteen puts (the seventh starts the
\* grow to 16, the thirteenth the grow to 32), then a get of every key, which
\* carries the second migration to its end.
SeqTwoGrows(sd) ==
    [n |-> 8, seed |-> sd, fails |-> 0,
     work |-> <<Work(<<>>, PutRange(1, 13, V2) \o GetRange(1, 13), {}, 0,
                     <<>>)>>]

\* Sequential, scripted, puts and deletes only: the shrink of SeqShrink, a
\* delete that carries the last migration step and makes room in the new
\* array, then a put of the key that was in the last slot of the old one.
SeqShrinkCount ==
    [n |-> 32, seed |-> 1, fails |-> 0,
     work |-> <<Work(<<>>,
                     <<Put(K(30), V1), Put(K(31), V2), Put(K(1), V1),
                       Del(K(1))>> \o PutRange(100, 114, V1)
                       \o <<Del(K(100)), Put(K(31), V1)>>,
                     {}, 0, <<>>)>>]

\* Sequential, scripted, with one allocation that fails somewhere: on 8
\* buckets, seven puts (the seventh asks for the grow to 16), a put of the
\* key of slot 6, which the migration has not reached, gets of that key and
\* of the key of slot 1, which the first migration step moves, and two
\* deletes of one key.
SeqNoMem ==
    [n |-> 8, seed |-> 1, fails |-> 1,
     work |-> <<Work(<<>>,
                     PutRange(1, 7, V1)
                       \o <<Put(K(6), V2), Get(K(6)), Get(K(1)), Del(K(2)),
                            Del(K(2))>>,
                     {}, 0, <<>>)>>]

\* Sequential, scripted (test_load_factor_boundaries): on
\* INITIAL_BUCKET_COUNT buckets, thirteen puts of distinct keys, the
\* thirteenth made at three quarters of the bucket count, then a get of
\* every key.
SeqBoundary(sd) ==
    [n |-> INITIAL_BUCKET_COUNT, seed |-> sd, fails |-> 0,
     work |-> <<Work(<<>>, PutRange(1, 13, V1) \o GetRange(1, 13), {}, 0,
                     <<>>)>>]

\* Sequential, scripted (test_null_pointers, test_zero_length_key,
\* test_zero_length_value): on 8 buckets, seven puts (the seventh starts the
\* grow to 16), then, with the migration under way, a put without key, a put
\* without value, a get and a delete without key, and a get of a stored key.
SeqInvalid ==
    [n |-> 8, seed |-> 1, fails |-> 0,
     work |-> <<Work(<<>>,
                     PutRange(1, 7, V1)
                       \o <<Put(NoBytes, V1), Put(K(1), NoBytes),
                            Get(NoBytes), Del(NoBytes), Get(K(1))>>,
                     {}, 0, <<>>)>>]

SeqScenarios ==
    {SeqFree(sd) : sd \in HashSeeds} \cup {SeqTwoGrows(sd) : sd \in HashSeeds}
        \cup {SeqBoundary(sd) : sd \in HashSeeds}
        \cup {SeqTiny, SeqShrink, SeqShrinkCount, SeqNoMem, SeqInvalid}

Init == \E sc \in SeqScenarios : InitOf(sc)

\* Two threads put disjoint new keys on 8 buckets that already hold 5
\* entries: the second put from now on starts the grow to 16.  After the
\* join the caller gets every key the threads put.
ConcDisjoint ==
    [n |-> 8, seed |-> 1, fails |-> 0,
     work |-> <<Work(PutRange(1, 5, V1),
                     <<Put(K(6), V1), Put(K(7), V1), Put(K(14), V1)>>,
                     {}, 0,
                     <<Get(K(6)), Get(K(7)), Get(K(14)), Get(K(8)),
                       Get(K(10)), Get(K(11))>>),
                Work(<<>>,
                     <<Put(K(8), V2), Put(K(10), V2), Put(K(11), V2)>>,
                     {}, 0, <<>>)>>]

\* Two threads put the same new key with different values on an empty table
\* (test_concurrent_writes_same_key); after the join the caller gets the key,
\* deletes it and gets it again.
ConcSameKey ==
    [n |-> 8, seed |-> 1, fails |-> 0,
     work |-> <<Work(<<>>, <<Put(K(1), V1)>>, {}, 0,
                     <<Get(K(1)), Del(K(1)), Get(K(1))>>),
                Work(<<>>, <<Put(K(1), V2)>>, {}, 0, <<>>)>>]

\* Seven puts on 8 buckets start the grow to 16; then two threads get keys
\* of the old array while their own steps carry the migration.
ConcGetMig ==
    [n |-> 8, seed |-> 1, fails |-> 0,
     work |-> <<Work(PutRange(1, 7, V1), <<Get(K(2))>>, {}, 0, <<>>),
                Work(<<>>, <<Get(K(1))>>, {}, 0, <<>>)>>]

\* The same grow with its migration cursor at 6 of 8: the next two operations
\* end the migration, one of them looking for a key that is in neither array.
ConcFinish ==
    [n |-> 8, seed |-> 1, fails |-> 0,
     work |-> <<Work(PutRange(1, 7, V1) \o <<Get(K(1)), Get(K(2)), Get(K(3))>>,
                     <<Get(K(4))>>, {}, 0, <<>>),
                Work(<<>>, <<Get(K(9)), Del(K(9))>>, {}, 0, <<>>)>>]

\* Two threads, any ConcOps operations each, on a table of 2 buckets.
ConcTiny ==
    [n |-> 2, seed |-> 1, fails |-> 0,
     work |-> <<Work(<<>>, <<>>,
                     {Put(K(1), V1), Put(K(3), V1), Get(K(1)), Del(K(1))},
                     ConcOps, <<>>),
                Work(<<>>, <<>>,
                     {Put(K(1), V2), Put(K(5), V1), Get(K(3)), Del(K(3))},
                     ConcOps, <<>>)>>]

\* On 32 buckets a delete starts the shrink to 16; then one thread puts a
\* new key while the other deletes the key of the old array.
ConcShrink ==
    [n |-> 32, seed |-> 1, fails |-> 0,
     work |-> <<Work(<<Put(K(30), V1), Put(K(1), V1), Del(K(1))>>,
                     <<Put(K(46), V2)>>, {}, 0, <<>>),
                Work(<<>>, <<Del(K(30))>>, {}, 0, <<>>)>>]

\* The grow of ConcGetMig again: one thread deletes a key of the old array
\* while the steps of both threads migrate its slot; the caller then gets it.
ConcDelMig ==
    [n |-> 8, seed |-> 1, fails |-> 0,
     work |-> <<Work(PutRange(1, 7, V1), <<Get(K(3))>>, {}, 0, <<Get(K(1))>>),
                Work(<<>>, <<Del(K(1))>>, {}, 0, <<>>)>>]

\* Eleven puts on 8 buckets: the seventh starts the grow to 16 and the next
\* four migrate the eight old slots, so that the next operation ends the
\* migration.  Then one thread puts a new key while the other puts two: the
\* twelfth entry, and a key whose put starts the grow to 32.
ConcStale ==
    [n |-> 8, seed |-> 1, fails |-> 0,
     work |-> <<Work(PutRange(1, 11, V1), <<Put(K(20), V2)>>, {}, 0, <<>>),
                Work(<<>>, <<Put(K(12), V1), Put(K(13), V1)>>, {}, 0, <<>>)>>]

ConcScenarios ==
    {ConcDisjoint, ConcSameKey, ConcGetMig, ConcFinish, ConcTiny, ConcShrink,
     ConcDelMig, ConcStale}

InitConc == \E sc \in ConcScenarios : InitOf(sc)

(* ------------------------------------------------------------------ *)
(* Next-state relation                                                 *)
(* ------------------------------------------------------------------ *)
Next ==
    \E t \in Threads :
        \/ Invoke(t) \/ Return(t)
        \/ MsbInc(t) \/ MsbLoadOld(t) \/ MsbLoadCnt(t) \/ MsbClaim(t) \/ MsbDec(t)
        \/ MbState(t) \/ MbLoadNew(t) \/ MbLoadCnt(t) \/ MbLock(t) \/ MbTomb(t)
        \/ FrTrylock(t) \/ FrLoadOld(t) \/ FrWorkers(t) \/ FrLoadCnt(t)
        \/ FrDestroy(t) \/ FrClearOld(t) \/ FrClearCnt(t) \/ FrClearIdx(t)
        \/ SrLock(t) \/ SrCheck(t) \/ SrAlloc(t) \/ SrStoreOld(t)
        \/ SrStoreOldCnt(t) \/ SrStoreIdx(t) \/ SrStoreNew(t) \/ SrStoreCnt(t)
        \/ LkState(t) \/ LkLock(t)
        \/ InsState(t) \/ InsLockTarget(t) \/ InsLockOcc(t) \/ InsTail(t)
        \/ DtState(t) \/ DtLock(t)
        \/ GetLoadBk(t) \/ GetLoadCnt(t) \/ GetLoadOld(t) \/ GetLoadOldCnt(t)
        \/ PutNeedsGrow(t) \/ PutLoadCur(t) \/ PutLoadOld(t) \/ PutLoadOldCnt(t)
        \/ PutLoadBk(t) \/ PutLoadCnt(t) \/ PutAccount(t)
        \/ DelLoadOld(t) \/ DelLoadOldCnt(t) \/ DelLoadBk(t) \/ DelLoadCnt(t)
        \/ DelAccount(t) \/ DelNeedsShrink(t) \/ DelLoadCur(t)

Spec == Init /\ [][Next]_vars

\* the engine under the concurrent workloads
SpecConc == InitConc /\ [][Next]_vars

\* Continuous load, sequential: seven puts on 8 buckets start the grow to 16,
\* then the caller gets one key again and again.
LiveSeq ==
    [n |-> 8, seed |-> 1, fails |-> 0,
     work |-> <<Work(<<>>, PutRange(1, 7, V1), {Get(K(1))}, Always, <<>>)>>]

\* Continuous load, two threads: 8 buckets hold six keys, one of them in slot
\* 0; thread 1 puts a seventh key, which starts the grow to 16, and then gets
\* one key again and again, while thread 2 puts one more key.
LiveConc ==
    [n |-> 8, seed |-> 1, fails |-> 0,
     work |-> <<Work(PutRange(1, 5, V1) \o <<Put(K(8), V2)>>,
                     <<Put(K(6), V1)>>, {Get(K(1))}, Always, <<>>),
                Work(<<>>, <<Put(K(10), V2)>>, {}, 0, <<>>)>>]

LiveScenarios == {LiveSeq, LiveConc, SeqShrink, SeqNoMem}

InitLive == \E sc \in LiveScenarios : InitOf(sc)

\* a step of thread t
StepOf(t) == Next /\ <<pc[t], loc[t]>>' # <<pc[t], loc[t]>>

\* The engine under continuous load.  Every thread that can take a step
\* eventually takes one: the threads are scheduled by the operating system
\* and a thread waits only for a futex (lock actions are disabled while the
\* lock is held).
SpecLive == InitLive /\ [][Next]_vars /\ \A t \in Threads : WF_vars(StepOf(t))

(* ------------------------------------------------------------------ *)
(* The engine from its construction on                                 *)
(* ------------------------------------------------------------------ *)
\* the counts passed to hash_engine_init: -100 (an int converted to
\* uint32_t, test_invalid_bucket_counts), 0, 1, a count that is no power of
\* two, MIN_BUCKET_COUNT - 1 (test_boundary_bucket_counts) and
\* INITIAL_BUCKET_COUNT
BootRequests == {0 - 100, 0, 1, 10, MIN_BUCKET_COUNT - 1, INITIAL_BUCKET_COUNT}

\* construction with count n, then a put, the construction of another
\* engine, and a get of the key
BootOnly(n) ==
    [n |-> n, fails |-> 0, race |-> FALSE,
     work |-> <<Work(<<>>, <<Put(K(1), V1), InitEngine, Get(K(1))>>, {}, 0,
                     <<>>)>>]

\* construction by thread 1 while thread 2 constructs another engine (the
\* first two constructions of the process), then a put and a get by thread 1
\* while thread 2 constructs a third engine
BootRace ==
    [n |-> INITIAL_BUCKET_COUNT, fails |-> 0, race |-> TRUE,
     work |-> <<Work(<<>>, <<Put(K(1), V1), Get(K(1))>>, {}, 0, <<>>),
                Work(<<>>, <<InitEngine>>, {}, 0, <<>>)>>]

\* construction followed by the workload of a sequential scenario and the
\* destruction of the engine
BootRun(sc) ==
    [n |-> sc.n, fails |-> sc.fails, race |-> FALSE,
     work |-> <<[sc.work[1] EXCEPT !.script = @ \o <<Destroy>>]>>]

\* construction, seven puts on 8 buckets (the seventh starts the grow to
\* 16), then any MaxOps operations on FreeKeys or the destruction of the
\* engine, which ends the run at any point of the migration
BootFree ==
    [n |-> 8, fails |-> 0, race |-> FALSE,
     work |-> <<Work(<<>>, PutRange(1, 7, V1), Menu(FreeKeys) \cup {Destroy},
                     MaxOps, <<>>)>>]

\* the puts of the keys K(ks[1]), K(ks[2]), ..., in this order, each key
\* with the value of its parity
PutsOf(ks) ==
    [j \in 1..Len(ks) |-> Put(K(ks[j]), IF ks[j] % 2 = 1 THEN V1 ELSE V2)]

GetsOf(ks) == [j \in 1..Len(ks) |-> Get(K(ks[j]))]

\* Two engines of n buckets, one after the other (test_metamorphic_insertion_order):
\* the keys are put in the order o1 and every key is got; the engine is
\* destroyed and constructed again with the same count; the same pairs are
\* put in the order o2 and every key is got.
BootOrder(n, o1, o2) ==
    [n |-> n, fails |-> 0, race |-> FALSE,
     work |-> <<Work(<<>>,
                     PutsOf(o1) \o GetsOf(o1) \o <<Destroy, Reinit>>
                        \o PutsOf(o2) \o GetsOf(o1),
                     {}, 0, <<>>)>>]

BootScenarios ==
    {BootOnly(n) : n \in BootRequests} \cup {BootRace, BootFree}
        \cup {BootOrder(2, <<1, 3, 5>>, <<5, 3, 1>>),
              BootOrder(8, <<1, 2, 3, 4, 5, 6, 7>>, <<7, 6, 5, 4, 3, 2, 1>>)}
        \cup {BootRun(sc) : sc \in {SeqShrink, SeqNoMem}}

\* The process before its first hash_engine_init: the key pair and the flag
\* are zeroed statics, the engine is zeroed memory, thread 1 is at the entry
\* of hash_engine_init(engine, sc.n); in a race thread 2 is at the entry of
\* init_siphash_keys for an engine of its own.
InitBootOf(sc) ==
    /\ heap = <<>>
    /\ hash_buckets = NULL
    /\ bucket_count = 0
    /\ old_buckets = NULL
    /\ old_bucket_count = 0
    /\ migrate_index = 0
    /\ migrate_workers = 0
    /\ item_count = 0
    /\ total_memory = 0
    /\ engine_lock = 0
    /\ seed = 0
    /\ siphash_initialized = 0
    /\ siphash_init_lock = 0
    /\ init_req = sc.n
    /\ init_rc = <<>>
    /\ failures = sc.fails
    /\ pc = [t \in Threads |->
               IF t = 1 THEN "hei_check"
               ELSE IF sc.race /\ t = 2 THEN "isk_check" ELSE "idle"]
    /\ loc = [t \in Threads |->
               IF t = 1 THEN [FreshLocals EXCEPT !.op = "boot"]
               ELSE IF sc.race /\ t = 2 THEN [FreshLocals EXCEPT !.op = "init"]
               ELSE FreshLocals]
    /\ work = [t \in Threads |-> IF t <= Len(sc.work) THEN sc.work[t] ELSE NoWork]
    /\ phase = "boot"
    /\ model = {}
    /\ prev = [t \in Threads |-> <<>>]
    /\ obs = [t \in Threads |-> NoObs]
    /\ gone = {}
    /\ invoked = {}
    /\ over = [t \in Threads |-> FALSE]
    /\ borrow = [t \in Threads |-> NoBorrow]
    /\ seen = {}
    /\ ub = "none"

InitBoot == \E sc \in BootScenarios : InitBootOf(sc)

NextBoot ==
    \/ Next
    \/ \E t \in Threads :
          \/ HeiCheck(t) \/ HeiAlloc(t)
          \/ IskCheck(t) \/ IskLock(t) \/ IskRecheck(t) \/ IskWrite(t)
          \/ IskFlag(t) \/ HedDestroy(t)

SpecBoot == InitBoot /\ [][NextBoot]_vars

(* ------------------------------------------------------------------ *)
(* Properties                                                          *)
(* ------------------------------------------------------------------ *)
\* every thread is idle and has nothing left to invoke
AllDone == \A t \in Threads : pc[t] = "idle" /\ Choices(t) = {}

\* lookup_in_table run alone on array a from probe pi on: the index of the
\* OCCUPIED slot holding key, or -1 (an EMPTY slot ends the chain, lines
\* 153-155; TOMBSTONE and foreign keys are skipped)
RECURSIVE FindFrom(_, _, _)
FindFrom(a, key, pi) ==
    LET cnt == heap[a].len
        j == (compute_hash(seed, key, cnt) + pi) % cnt
    IN IF pi >= cnt \/ bucket_state(Bkt(a, j)) = BUCKET_EMPTY THEN -1
       ELSE IF /\ bucket_state(Bkt(a, j)) = BUCKET_OCCUPIED
               /\ keys_equal(Bkt(a, j).key, Bkt(a, j).key_len, key, Len(key))
            THEN j
            ELSE FindFrom(a, key, pi + 1)

\* array a is allocated and a lookup in it finds key
Reachable(a, key) ==
    a # NULL /\ heap[a].alive /\ heap[a].len > 0 /\ FindFrom(a, key, 0) # -1

\* some slot of the allocated array a is OCCUPIED with key
Stored(a, key) ==
    /\ a # NULL
    /\ heap[a].alive
    /\ \E j \in 0..(heap[a].len - 1) :
         /\ bucket_state(Bkt(a, j)) = BUCKET_OCCUPIED
         /\ keys_equal(Bkt(a, j).key, Bkt(a, j).key_len, key, Len(key))

\* key is retrievable with value v: found in the current array, or else in
\* the old one (the order of hash_get, lines 514-527)
Retrievable(key, v) ==
    IF Reachable(hash_buckets, key)
    THEN Bkt(hash_buckets, FindFrom(hash_buckets, key, 0)).value = v
    ELSE /\ Reachable(old_buckets, key)
         /\ Bkt(old_buckets, FindFrom(old_buckets, key, 0)).value = v

\* a shrink has been started: some array is smaller than the one it replaced
Shrunk == \E i \in 2..Len(heap) : heap[i].len < heap[i - 1].len

\* a hash_get of a key of the reference map is returning its value
GetFindsLive(t) ==
    (pc[t] = "ret" /\ loc[t].op = "get" /\ ModelHas(loc[t].key))
        => /\ loc[t].rc = 0
           /\ loc[t].out = ModelGet(loc[t].key)
           /\ loc[t].out_len = Len(ModelGet(loc[t].key))

\* the result a reference map gives for the operation thread t is returning
\* from: hash_get and hash_delete succeed exactly on the keys of the map
AgreesWithModel(t) ==
    LET L == loc[t] IN
    /\ L.op = "get" =>
         IF ModelHas(L.key)
         THEN L.rc = 0 /\ L.out = ModelGet(L.key)
              /\ L.out_len = Len(ModelGet(L.key))
         ELSE L.rc = -ENOENT
    /\ L.op = "del" => L.rc = (IF ModelHas(L.key) THEN 0 ELSE -ENOENT)

\* C1: in a sequential run the engine behaves like a reference map: every
\* hash_get and hash_delete returns what the map of the successful puts and
\* deletes gives, and at the end item_count is the size of the map.
C1_RefinesMap ==
    /\ \A t \in Threads : pc[t] = "ret" => AgreesWithModel(t)
    /\ AllDone => item_count = Cardinality(model)

\* C2: when threads put disjoint sets of new keys, every put returns
\* success and nothing else mutates the engine, then after the threads have
\* finished item_count is the number of keys put and the caller's hash_get of
\* every such key returns it.
C2_DisjointPuts ==
    (invoked \subseteq {"put", "get"} /\ ub = "none") =>
        /\ (RunExhausted /\ Quiescent) => item_count = Cardinality(model)
        /\ phase = "final" => \A t \in Threads : GetFindsLive(t)

\* C3: after threads have put the same key concurrently, each with success,
\* the engine counts the key once and a hash_get returns one of the values
\* put, with its length.
C3_SameKeyPuts ==
    ("put_again" \in invoked /\ invoked \subseteq {"put", "put_again", "get"}
        /\ ub = "none")
    => /\ (RunExhausted /\ Quiescent) => item_count = Cardinality(model)
       /\ \A t \in Threads :
            (phase = "final" /\ pc[t] = "ret" /\ loc[t].op = "get"
                /\ ModelHas(loc[t].key))
            => /\ loc[t].rc = 0
               /\ loc[t].out \in {V1, V2}
               /\ loc[t].out_len = Len(loc[t].out)

\* C4: no thread dereferences a slot of an array that finish_resize has
\* freed, and no array is freed twice.
C4_NoUseAfterFree == ub \notin {"uaf", "double_free"}

\* C5: at every instant every live key (put with success, not deleted since,
\* no delete of it in flight) has an OCCUPIED slot that a lookup reaches in
\* the current array or in the old one, also while a hash_put of that key is
\* in flight.
C5_NoLossWindow ==
    \A p \in model :
        (~\E u \in Threads : InFlight(u, p[1], {"del"}))
            => Reachable(hash_buckets, p[1]) \/ Reachable(old_buckets, p[1])

\* C6: a hash_get of a key that is live throughout, with no put or delete of
\* that key in flight during the get, started while a migration is in
\* progress, returns success with the value of the key.
C6_GetDuringMigration ==
    \A t \in Threads :
        (pc[t] = "ret" /\ loc[t].op = "get" /\ ModelHas(loc[t].key)
            /\ obs[t].quiet /\ obs[t].mig /\ ub = "none")
        => loc[t].rc = 0 /\ loc[t].out = ModelGet(loc[t].key)

\* C7: a hash_get of a key whose hash_delete returned success, with no put of
\* the key concurrent with the delete or invoked since, returns not-found.
C7_NoResurrection ==
    ub = "none" =>
        /\ \A k \in gone : ~Stored(hash_buckets, k) /\ ~Stored(old_buckets, k)
        /\ \A t \in Threads :
             (pc[t] = "ret" /\ loc[t].op = "get" /\ obs[t].gone
                 /\ obs[t].noput)
             => loc[t].rc = -ENOENT

C9_ShrinkPreserves ==
    Shrunk =>
        /\ \A t \in Threads : GetFindsLive(t)
        /\ Quiescent => \A p \in model : Retrievable(p[1], p[2])

\* C10: in a sequential run a hash_get(K) that directly follows a successful
\* hash_put(K, V) returns success, the bytes of V and the length of V.
C10_RoundTrip ==
    \A t \in Threads :
        (pc[t] = "ret" /\ loc[t].op = "get" /\ prev[t] # <<>>
            /\ prev[t][1] = loc[t].key)
        => /\ loc[t].rc = 0
           /\ loc[t].out = prev[t][2]
           /\ loc[t].out_len = Len(prev[t][2])

\* a hash_get returns the two bytes just put over a one-byte value, while a
\* migration is in progress
C10_Witness ==
    \E t \in Threads :
        /\ pc[t] = "ret" /\ loc[t].op = "get" /\ loc[t].rc = 0
        /\ prev[t] = <<loc[t].key, V2>>
        /\ loc[t].out = V2 /\ loc[t].out_len = 2
        /\ old_buckets # NULL
\* the number of distinct keys of the reference map
LiveKeys == Cardinality({p[1] : p \in model})

\* C11: in a sequential run of puts and deletes none of which has failed,
\* after each call item_count is the number of distinct live keys.
C11_CountConsistency ==
    (Quiescent /\ invoked \subseteq {"put", "put_again", "del"})
        => item_count = LiveKeys

\* C12: whenever no operation is in flight, item_count is the number of
\* OCCUPIED slots of the current array plus those of the old array.
C12_CountIsOccupied ==
    Quiescent => item_count = Occupied(hash_buckets) + Occupied(old_buckets)

\* C13: a put over a key that the current or the old array holds, with no
\* other operation in flight, leaves item_count as it was and the key
\* retrievable with the new value only; the hash_get that follows it returns
\* the new value and its length.
C13_Overwrite ==
    \A t \in Threads :
        /\ (pc[t] = "ret" /\ loc[t].op = "put" /\ loc[t].rc = 0
                /\ obs[t].held /\ obs[t].alone)
           => /\ item_count = obs[t].cnt
              /\ Retrievable(loc[t].key, loc[t].val)
              /\ {e \in AllEntries : e[1] = loc[t].key}
                    = {<<loc[t].key, loc[t].val>>}
        /\ (pc[t] = "ret" /\ loc[t].op = "get" /\ over[t] /\ obs[t].alone
                /\ prev[t][1] = loc[t].key)
           => /\ loc[t].rc = 0
              /\ loc[t].out = prev[t][2]
              /\ loc[t].out_len = Len(prev[t][2])

\* a put of two bytes over a one-byte value has found the key in the old
\* array of a migration in progress and is returning success
C13_Witness ==
    \E t \in Threads :
        /\ pc[t] = "ret" /\ loc[t].op = "put" /\ loc[t].rc = 0
        /\ obs[t].held /\ obs[t].alone /\ obs[t].mig
        /\ loc[t].existed_in_old = 1 /\ loc[t].val = V2
        /\ <<loc[t].key, V1>> \in obs[t].entries
        /\ old_buckets # NULL

\* C14: a delete of a key whose last delete succeeded, with no put of the key
\* since and no other operation in flight, returns not-found and leaves
\* item_count, total_memory and the stored entries as they were: no entry is
\* added or changed (its own migration step may only move entries), and no
\* resize is started.
C14_DeleteTwice ==
    \A t \in Threads :
        (pc[t] = "ret" /\ loc[t].op = "del" /\ obs[t].gone /\ obs[t].noput
            /\ obs[t].alone)
        => /\ loc[t].rc = -ENOENT
           /\ item_count = obs[t].cnt
           /\ total_memory = obs[t].mem
           /\ AllEntries \subseteq obs[t].entries
           /\ ~\E e \in obs[t].entries : e[1] = loc[t].key
           /\ old_buckets \in {obs[t].old, NULL}

\* a second delete of a key is returning not-found while a migration is in
\* progress and other keys are stored
C14_Witness ==
    \E t \in Threads :
        /\ pc[t] = "ret" /\ loc[t].op = "del" /\ loc[t].rc = -ENOENT
        /\ obs[t].gone /\ obs[t].noput /\ obs[t].alone /\ obs[t].mig
        /\ obs[t].cnt > 0 /\ item_count = obs[t].cnt

\* C15: a hash_put returns -ENOSPC only when bucket_count is MAX_BUCKET_COUNT
\* and no slot of the current array is EMPTY or TOMBSTONE.
C15_NoSpaceOnlyAtMax ==
    \A t \in Threads :
        (pc[t] = "ret" /\ loc[t].op = "put" /\ loc[t].rc = -ENOSPC)
        => /\ bucket_count = MAX_BUCKET_COUNT
           /\ Occupied(hash_buckets) = bucket_count

\* C16: a hash_put that returns -ENOMEM, with no other operation in flight,
\* leaves the stored entries, item_count and total_memory as they were when
\* it was invoked, also when the key was in the old array.
C16_NoMemLeavesContent ==
    \A t \in Threads :
        (pc[t] = "ret" /\ loc[t].op = "put" /\ loc[t].rc = -ENOMEM
            /\ obs[t].alone)
        => /\ AllEntries = obs[t].entries
           /\ item_count = obs[t].cnt
           /\ total_memory = obs[t].mem

\* C17: when insert_into_table has failed inside migrate_bucket (no memory or
\* no free slot), the step that ends migrate_bucket leaves the old slot
\* OCCUPIED with its key and value, for a later operation to retry.
C17_FailedStepKeepsSlot ==
    [][\A t \in Threads :
          (pc[t] = "mb_tomb" /\ loc[t].mig_rc # 0
              /\ pc'[t] \notin {"mb_tomb", "crashed"})
          => LET bk == heap[loc[t].old].b[loc[t].idx + 1]
                 after == heap'[loc[t].old].b[loc[t].idx + 1]
             IN /\ after.state = BUCKET_OCCUPIED
                /\ after.key = bk.key
                /\ after.value = bk.value]_vars

\* C18: when the allocation of the replacement array fails, the step that
\* fails leaves the current array, bucket_count, the old pointer,
\* old_bucket_count and the cursor as they were and releases the engine
\* lock; the put that asked for the resize then returns success with its
\* entry stored in the array of the capacity it found.
C18_ResizeFailureRecovery ==
    /\ [][\A t \in Threads :
            (pc[t] = "sr_alloc" /\ loc'[t].sr_ret = "nomem")
            => /\ UNCHANGED <<hash_buckets, bucket_count, old_buckets,
                              old_bucket_count, migrate_index, heap>>
               /\ engine_lock = t /\ engine_lock' = 0
               /\ pc'[t] = IF loc[t].op = "put" THEN "put_load_old"
                           ELSE "ret"]_vars
    /\ [](\A t \in Threads :
            (pc[t] = "ret" /\ loc[t].op = "put" /\ loc[t].sr_ret = "nomem"
                /\ obs[t].alone)
            => /\ loc[t].rc = 0
               /\ hash_buckets = loc[t].buckets
               /\ bucket_count = loc[t].bcount
               /\ <<loc[t].key, loc[t].val>> \in Entries(hash_buckets)
               /\ engine_lock = 0)

\* a put whose resize request ran out of memory is returning success, its
\* entry stored in the array of 8 buckets that the resize was to replace
C18_Witness ==
    \E t \in Threads :
        /\ pc[t] = "ret" /\ loc[t].op = "put" /\ loc[t].rc = 0
        /\ loc[t].sr_ret = "nomem" /\ loc[t].sr_rc = -ENOMEM
        /\ old_buckets = NULL /\ hash_buckets = 1
        /\ <<loc[t].key, loc[t].val>> \in Entries(hash_buckets)
        /\ needs_grow(item_count, bucket_count)

\* array a has been released by finish_resize
Reclaimed(a) == a # NULL /\ a <= Len(heap) /\ ~heap[a].alive

\* the arrays a run may allocate
MaxArrays == 4

\* C19: in every run in which operations keep being invoked (and none has
\* executed undefined behaviour), an array that has become the old array is
\* eventually reclaimed.
C19_MigrationLiveness ==
    ([]<>(\E t \in Threads : pc[t] = "msb_inc"))
        => \A a \in 1..MaxArrays :
              (old_buckets = a) ~> (Reclaimed(a) \/ ub # "none")

\* the arrays that are allocated
AliveArrays == {a \in 1..Len(heap) : heap[a].alive}

\* C20: at most one migration is in progress: never more than two arrays are
\* allocated, and a call of hash_engine_start_resize that finds the old
\* pointer non-null returns 0 and leaves the current array, bucket_count,
\* the old array, old_bucket_count and the cursor as they were.
C20_OneMigration ==
    /\ [](Cardinality(AliveArrays) <= 2)
    /\ [][\A t \in Threads :
            (pc[t] = "sr_check" /\ old_buckets # NULL /\ pc'[t] # "sr_check")
            => /\ UNCHANGED <<hash_buckets, bucket_count, old_buckets,
                              old_bucket_count, migrate_index, heap>>
               /\ loc'[t].sr_rc = 0 /\ loc'[t].sr_ret = "busy"
               /\ engine_lock' = 0]_vars

\* a put that asked for a grow while another thread's migration was in
\* progress has been sent back by hash_engine_start_resize and goes on
C20_Witness ==
    \E t \in Threads :
        /\ pc[t] = "put_load_old" /\ loc[t].sr_ret = "busy"
        /\ loc[t].sr_rc = 0 /\ old_buckets # NULL
        /\ Cardinality(AliveArrays) = 2
        /\ \E u \in Threads \ {t} : pc[u] # "idle"

\* thread t takes the step
Steps(t) == pc'[t] # pc[t] \/ loc'[t] # loc[t]

\* thread t is in migrate_some_buckets, in the migrate_bucket it calls (the
\* insertion into the new array included) or in finish_resize
Migrating(t) ==
    \/ pc[t] \in {"msb_inc", "msb_load_old", "msb_load_cnt", "msb_claim",
                  "msb_dec", "mb_state", "mb_load_new", "mb_load_cnt",
                  "mb_lock", "mb_tomb", "fr_trylock", "fr_load_old",
                  "fr_workers", "fr_load_cnt", "fr_destroy", "fr_clear_old",
                  "fr_clear_cnt", "fr_clear_idx"}
    \/ loc[t].ctx = "mig"

BoundaryRun ==
    /\ heap[1].len = INITIAL_BUCKET_COUNT
    /\ invoked \subseteq {"put", "get"}

\* C22: on a fresh engine of N = 16 buckets, bucket_count is N as long as at
\* most 12 = floor(0.75 * N) puts of distinct keys have been made (item_count
\* is then the number of puts); once the thirteenth put has returned,
\* bucket_count is 2 * N, all 13 keys are retrievable with their values and
\* every get of one of them returns its value.
C22_GrowAtThreshold ==
    BoundaryRun =>
       /\ (Cardinality(model) < 12
               \/ (Cardinality(model) = 12 /\ pc[1] = "idle"))
            => /\ bucket_count = INITIAL_BUCKET_COUNT
               /\ hash_buckets = 1 /\ old_buckets = NULL
               /\ pc[1] = "idle" => item_count = Cardinality(model)
       /\ Cardinality(model) = 13
            => /\ bucket_count = 2 * INITIAL_BUCKET_COUNT
               /\ heap[hash_buckets].len = 2 * INITIAL_BUCKET_COUNT
               /\ item_count = 13
               /\ \A p \in model : Retrievable(p[1], p[2])
               /\ GetFindsLive(1)

\* the thirteenth put has returned and the table has 32 buckets
C22_Witness ==
    /\ BoundaryRun /\ Cardinality(model) = 13 /\ pc[1] = "idle"
    /\ invoked = {"put"}
    /\ bucket_count = 2 * INITIAL_BUCKET_COUNT /\ old_buckets # NULL

\* the powers of two within [MIN_BUCKET_COUNT, MAX_BUCKET_COUNT]
BucketCounts ==
    {n \in {2 ^ k : k \in 0..20} :
        n >= MIN_BUCKET_COUNT /\ n <= MAX_BUCKET_COUNT}

\* C23: once hash_engine_init has returned 0 for a requested count n >= 1,
\* and until the engine is destroyed, bucket_count is a power of two within
\* [MIN_BUCKET_COUNT, MAX_BUCKET_COUNT], and so is old_bucket_count while
\* the old array exists.
C23_PowerOfTwoInRange ==
    (init_rc = <<0>> /\ init_req >= 1 /\ hash_buckets # NULL)
        => /\ bucket_count \in BucketCounts
           /\ old_buckets # NULL => old_bucket_count \in BucketCounts

\* C24: a call of hash_engine_init with a count that is zero or negative
\* returns -EINVAL and has allocated no bucket array.
C24_RejectsNonPositive ==
    (init_rc # <<>> /\ init_req <= 0)
        => (init_rc = <<-EINVAL>> /\ heap = <<>>)

\* the operation with locals L was called without key, or is a put without
\* value
Rejected(L) ==
    /\ L.op \in {"put", "get", "del"}
    /\ L.key = NoBytes \/ (L.op = "put" /\ L.val = NoBytes)

\* C25: a put without key or without value, and a get or a delete without
\* key, consists of its invocation and its return of -EINVAL, and neither
\* step changes a bucket array, a slot, item_count, total_memory, the array
\* pointers and lengths, the cursor, the worker count or the engine lock.
C25_InvalidArgs ==
    [][\A t \in Threads :
          /\ (pc[t] = "idle" /\ pc'[t] # "idle" /\ Rejected(loc'[t]))
                => /\ pc'[t] = "ret" /\ loc'[t].rc = -EINVAL
                   /\ UNCHANGED <<heap, engine>>
          /\ (pc[t] = "ret" /\ Rejected(loc[t]) /\ Steps(t))
                => /\ pc'[t] = "idle" /\ loc[t].rc = -EINVAL
                   /\ UNCHANGED <<heap, engine>>]_vars

\* a put without value is returning -EINVAL while a migration is under way
\* and the cursor has not reached the end of the old array
C25_Witness ==
    \E t \in Threads :
        /\ pc[t] = "ret" /\ loc[t].op = "put" /\ loc[t].val = NoBytes
        /\ loc[t].key # NoBytes /\ loc[t].rc = -EINVAL
        /\ old_buckets # NULL /\ migrate_index < old_bucket_count

\* the value buffer that pointer b was taken from is still allocated and
\* holds the bytes that were returned: the array is allocated and the slot
\* has stayed OCCUPIED with the key and that value (every release of a value
\* buffer tombstones or clears its slot, or replaces the value by a put of
\* the key)
Unfreed(b) ==
    /\ Access(b.ptr[1], b.ptr[2]) = "ok"
    /\ bucket_state(Bkt(b.ptr[1], b.ptr[2])) = BUCKET_OCCUPIED
    /\ Bkt(b.ptr[1], b.ptr[2]).key = b.key
    /\ Bkt(b.ptr[1], b.ptr[2]).value = b.val

\* C26: the pointer a successful hash_get(K) returned refers to allocated
\* memory holding the returned bytes for as long as no put or delete of K
\* has been invoked, whatever operations on other keys run meanwhile.
C26_BorrowStaysValid ==
    \A t \in Threads : borrow[t].key # NoBytes => Unfreed(borrow[t])

\* thread t is probing a table, or is acquiring (or waiting for) a slot lock:
\* in lookup_in_table, insert_into_table, delete_from_table, at the lock
\* of migrate_bucket, or at a bucket_destroy of finish_resize
AtSlot(t) ==
    \/ pc[t] \in {"lk_state", "lk_lock", "ins_state", "ins_lock_target",
                  "ins_lock_occ", "ins_tail", "dt_state", "dt_lock",
                  "mb_state", "mb_lock"}
    \/ pc[t] = "fr_destroy" /\ loc[t].i < loc[t].old_count

\* C27: a thread that holds the engine mutex is neither probing a table nor
\* acquiring or waiting for a slot lock.
C27_LockOrder ==
    \A t \in Threads : engine_lock = t => ~AtSlot(t)

\* hash_engine_destroy has run: it is returning, or has returned and the
\* engine has not been constructed again
Destroyed ==
    \/ phase = "dead" /\ \A t \in Threads : pc[t] = "idle"
    \/ \E t \in Threads : pc[t] = "ret" /\ loc[t].op = "destroy"

\* C29: after hash_engine_destroy, whatever sequential history went before
\* and whether or not a migration was under way, every bucket array ever
\* allocated has been freed, no slot of any of them still owns a key or a
\* value buffer, nothing was freed twice, both array pointers are NULL and
\* bucket_count, old_bucket_count, item_count, total_memory and the cursor
\* are 0.
C29_DestroyFreesAll ==
    Destroyed =>
       /\ \A a \in 1..Len(heap) :
             /\ ~heap[a].alive
             /\ \A j \in 1..Len(heap[a].b) :
                   heap[a].b[j].key = NoBytes /\ heap[a].b[j].value = NoBytes
       /\ ub = "none"
       /\ hash_buckets = NULL /\ old_buckets = NULL
       /\ bucket_count = 0 /\ old_bucket_count = 0
       /\ item_count = 0 /\ total_memory = 0 /\ migrate_index = 0

\* hash_engine_destroy is returning from a call made while a migration
\* was under way, with entries left in both arrays
C29_Witness ==
    \E t \in Threads :
        /\ pc[t] = "ret" /\ loc[t].op = "destroy" /\ loc[t].rc = 0
        /\ obs[t].mig /\ obs[t].old # NULL
        /\ Len(heap) = 2
        /\ \E e \in obs[t].entries : TRUE
        /\ \A a \in 1..2 : ~heap[a].alive

\* thread t is returning from a hash_get on the second of two engines: the
\* engine was destroyed and constructed again, and gets were made before
SecondGet(t) ==
    /\ pc[t] = "ret" /\ loc[t].op = "get"
    /\ seen # {}
    /\ ~\E i \in DOMAIN work[t].script : work[t].script[i].op = "boot"

\* C28: when the same pairs with distinct keys have been put in two orders
\* into two engines constructed with the same bucket count, every hash_get
\* on the second engine returns what the hash_get of that key returned on
\* the first (status, value bytes and length), and item_count is the same.
C28_OrderIndependent ==
    \A t \in Threads :
        SecondGet(t) =>
            \A r \in seen :
                /\ r.cnt = item_count
                /\ r.key = loc[t].key
                     => /\ r.rc = loc[t].rc
                        /\ r.out = loc[t].out
                        /\ r.out_len = loc[t].out_len

\* hash_key_0 and hash_key_1 change in this step
KeyWrite == seed' # seed

\* thread t is inside hash_engine_init or init_siphash_keys
Constructing(t) ==
    pc[t] \in {"hei_check", "hei_alloc", "isk_check", "isk_lock",
               "isk_recheck", "isk_write", "isk_flag"}

\* C30: the SipHash key pair is written once: a step that changes it finds
\* the pair unset and the flag siphash_initialized clear, so no later or
\* concurrent hash_engine_init changes it; and once another engine has been
\* initialised, a hash_get of a key stored in the existing engine still
\* returns its value.
C30_KeysWrittenOnce ==
    /\ [][KeyWrite => seed = 0 /\ siphash_initialized = 0]_vars
    /\ [](\A t \in Threads : "init" \in invoked => GetFindsLive(t))

\* a hash_get finds its key after the hash_engine_init of another engine
\* has been called and has returned, the key pair being set
C30_Witness ==
    /\ "init" \in invoked
    /\ seed # 0 /\ siphash_initialized = 1
    /\ \A u \in Threads : ~Constructing(u) /\ loc[u].op # "init"
    /\ \E t \in Threads :
          pc[t] = "ret" /\ loc[t].op = "get" /\ loc[t].rc = 0

\* two different slots of array a are OCCUPIED with the same key
Duplicate(a) ==
    \E i, j \in 0..(heap[a].len - 1) :
        /\ i < j
        /\ bucket_state(Bkt(a, i)) = BUCKET_OCCUPIED
        /\ bucket_state(Bkt(a, j)) = BUCKET_OCCUPIED
        /\ keys_equal(Bkt(a, i).key, Bkt(a, i).key_len,
                      Bkt(a, j).key, Bkt(a, j).key_len)

\* C31: in every reachable state no allocated bucket array holds the same
\* key in two OCCUPIED slots.
C31_NoDuplicateKey ==
    \A a \in 1..Len(heap) : heap[a].alive => ~Duplicate(a)

\* thread t has claimed an index of the old array it loaded and is in
\* migrate_bucket on that slot (the insertion into the new array included)
InMigrateBucket(t) ==
    \/ pc[t] \in {"mb_state", "mb_load_new", "mb_load_cnt", "mb_lock",
                  "mb_tomb"}
    \/ loc[t].ctx = "mig"

\* C32: a thread that has incremented migrate_workers, loaded the old-array
\* pointer and claimed an index runs migrate_bucket on an array that
\* finish_resize has not freed.
C32_NoStepOnFreedArray ==
    \A t \in Threads :
        InMigrateBucket(t) =>
            IF loc[t].old = NULL THEN FALSE ELSE heap[loc[t].old].alive

\* thread t runs a hash_delete with valid arguments that was invoked during
\* a migration while no other operation was running, and none has been
\* invoked since
DeleteInMigration(t) ==
    /\ loc[t].op = "del" /\ loc[t].key # NoBytes
    /\ obs[t].mig /\ obs[t].alone

StoredWith(a, key, v) ==
    /\ a # NULL
    /\ heap[a].alive
    /\ \E j \in 0..(heap[a].len - 1) :
         /\ bucket_state(Bkt(a, j)) = BUCKET_OCCUPIED
         /\ keys_equal(Bkt(a, j).key, Bkt(a, j).key_len, key, Len(key))
         /\ Bkt(a, j).value = v /\ Bkt(a, j).value_len = Len(v)

\* thread t runs a hash_put that was invoked during a migration and has had
\* no put or delete of its key running beside it
PutInMigration(t) == loc[t].op = "put" /\ obs[t].mig /\ obs[t].quiet

\* C34: when the insertion of a hash_put(K, V) that was invoked during a
\* migration, with no put or delete of K running beside it, succeeds, K is
\* OCCUPIED with value V in the current array and in no slot of the old
\* array; and when the put returns and no other operation ran beside it at
\* all, item_count is what it was if K was in one of the arrays before the
\* put, and one more otherwise.
C34_PutCollapses ==
    /\ [][\A t \in Threads :
            (PutInMigration(t) /\ pc[t] # "put_account"
                /\ pc'[t] = "put_account")
            => /\ StoredWith(hash_buckets, loc[t].key, loc[t].val)'
               /\ ~Stored(old_buckets, loc[t].key)']_vars
    /\ [](\A t \in Threads :
            (PutInMigration(t) /\ pc[t] = "ret" /\ loc[t].rc = 0
                /\ obs[t].alone)
            => item_count = obs[t].cnt + (IF obs[t].held THEN 0 ELSE 1))

\* the first slot of the probe chain of key in array a, from probe pi on,
\* that is in state st, or -1; looking for a TOMBSTONE the chain ends at the
\* first EMPTY slot
RECURSIVE FirstInChain(_, _, _, _)
FirstInChain(a, key, pi, st) ==
    LET cnt == heap[a].len
        j == (compute_hash(seed, key, cnt) + pi) % cnt
    IN IF pi >= cnt THEN -1
       ELSE IF bucket_state(Bkt(a, j)) = st THEN j
       ELSE IF bucket_state(Bkt(a, j)) = BUCKET_EMPTY THEN -1
       ELSE FirstInChain(a, key, pi + 1, st)

\* where the insertion of key into array a has to write: the OCCUPIED slot
\* of the key if the chain has one before its first EMPTY slot, else the
\* first TOMBSTONE of the chain, else its first EMPTY slot (-1: no room)
InsertSlot(a, key) ==
    IF FindFrom(a, key, 0) # -1 THEN FindFrom(a, key, 0)
    ELSE IF FirstInChain(a, key, 0, BUCKET_TOMBSTONE) # -1
    THEN FirstInChain(a, key, 0, BUCKET_TOMBSTONE)
    ELSE FirstInChain(a, key, 0, BUCKET_EMPTY)

\* the place of slot j in the probe chain of key in array a
ChainPos(a, key, j) ==
    (j + heap[a].len - compute_hash(seed, key, heap[a].len)) % heap[a].len

\* thread t is in insert_into_table on an allocated array, called by hash_put
\* or by migrate_bucket, with no other operation running
InsertingAlone(t) ==
    /\ pc[t] \in {"ins_state", "ins_lock_target", "ins_lock_occ", "ins_tail"}
    /\ obs[t].alone
    /\ loc[t].tbl # NULL

\* C35: with no other operation running, insert_into_table writes exactly
\* one slot of its table: the OCCUPIED slot that holds the key if the probe
\* chain has one before its first EMPTY slot, whose value it replaces (also
\* behind a TOMBSTONE); otherwise the first TOMBSTONE of the chain, else the
\* first EMPTY slot, which it fills with the key and the value.  It fails
\* without writing when there is no such slot, and after a hash_put has
\* inserted, a lookup of the key in that table reaches the value.
C35_InsertSlot ==
    /\ [][\A t \in Threads :
            (InsertingAlone(t) /\ Steps(t)) =>
                LET L == loc[t]
                    j == InsertSlot(L.tbl, L.ikey)
                    returns == pc'[t] \in {"put_account", "mb_tomb", "ret"}
                    done == \/ pc'[t] = "put_account"
                            \/ pc'[t] = "mb_tomb" /\ loc'[t].mig_rc = 0
                IN /\ ~returns => heap' = heap
                   /\ (returns /\ done) =>
                        /\ j # -1
                        /\ heap' = SetBkt(heap, L.tbl, j,
                              IF bucket_state(Bkt(L.tbl, j)) = BUCKET_OCCUPIED
                              THEN ReplaceValue(Bkt(L.tbl, j), L.ival)
                              ELSE Occupy(Bkt(L.tbl, j), L.ikey, L.ival))
                   /\ (returns /\ ~done) =>
                        /\ heap' = heap
                        /\ j = -1 \/ failures' # failures]_vars
    /\ [](\A t \in Threads :
            (pc[t] = "put_account" /\ obs[t].alone)
                => /\ Reachable(loc[t].buckets, loc[t].key)
                   /\ Bkt(loc[t].buckets,
                          FindFrom(loc[t].buckets, loc[t].key, 0)).value
                        = loc[t].val)

\* a hash_put has replaced the value of its key in place, in a slot that
\* comes after a TOMBSTONE in the probe chain of the key
C35_Witness ==
    \E t \in Threads :
        /\ pc[t] = "put_account" /\ obs[t].alone /\ loc[t].is_new = 0
        /\ LET a == loc[t].buckets
               k == loc[t].key
           IN /\ FirstInChain(a, k, 0, BUCKET_TOMBSTONE) # -1
              /\ ChainPos(a, k, FirstInChain(a, k, 0, BUCKET_TOMBSTONE))
                    < ChainPos(a, k, FindFrom(a, k, 0))

\* the changes of state of a bucket of a live array
Transitions ==
    {<<BUCKET_EMPTY, BUCKET_OCCUPIED>>, <<BUCKET_OCCUPIED, BUCKET_OCCUPIED>>,
     <<BUCKET_OCCUPIED, BUCKET_TOMBSTONE>>,
     <<BUCKET_TOMBSTONE, BUCKET_OCCUPIED>>}

\* thread t is in the reclamation of finish_resize or in hash_engine_destroy
Reclaiming(t) == pc[t] \in {"fr_destroy", "hed_destroy"}

\* C36: whenever a step of put, get, delete or migration changes a bucket of
\* an allocated array (its state, key or value), the change is one of
\* EMPTY -> OCCUPIED, OCCUPIED -> OCCUPIED, OCCUPIED -> TOMBSTONE and
\* TOMBSTONE -> OCCUPIED, never one to EMPTY, and the bucket's lock is held
\* by the thread that makes it (taken in that step, or held since an
\* earlier one) and by no other thread.
C36_StateMachine ==
    [][\A t \in Threads :
          (Steps(t) /\ ~Reclaiming(t)) =>
             \A a \in 1..Len(heap) :
                heap[a].alive =>
                   \A j \in 1..heap[a].len :
                      LET b == heap[a].b[j]
                          c == heap'[a].b[j]
                      IN (c.state # b.state \/ c.key # b.key
                             \/ c.value # b.value)
                         => /\ <<b.state, c.state>> \in Transitions
                            /\ b.lock \in {0, t}
                            /\ c.lock = 0]_vars

\* a migration step holds the lock of the OCCUPIED old slot it is about to
\* tombstone, in an array that already has a TOMBSTONE, while another
\* thread waits for the lock of that slot
C36_Witness ==
    \E t \in Threads :
        /\ pc[t] = "mb_tomb"
        /\ Access(loc[t].old, loc[t].idx) = "ok"
        /\ Bkt(loc[t].old, loc[t].idx).lock = t
        /\ bucket_state(Bkt(loc[t].old, loc[t].idx)) = BUCKET_OCCUPIED
        /\ \E j \in 0..(heap[loc[t].old].len - 1) :
              bucket_state(Bkt(loc[t].old, j)) = BUCKET_TOMBSTONE
        /\ \E u \in Threads \ {t} :
              /\ pc[u] \in {"lk_lock", "dt_lock", "ins_lock_occ"}
              /\ loc[u].tbl = loc[t].old
              /\ Probe(loc[u]) = loc[t].idx

\* thread t is in lookup_in_table, insert_into_table or delete_from_table
InTable(t) ==
    pc[t] \in {"lk_state", "lk_lock", "ins_state", "ins_lock_target",
               "ins_lock_occ", "ins_tail", "dt_state", "dt_lock"}

\* C37: the pointer and the length a probe uses belong to the same array, so
\* that every index it dereferences lies within the array: in a table
\* function the length is that of the array the pointer points to, in
\* migrate_bucket the claimed index is below the length of the old array it
\* was claimed for, and no access falls past the end of an array.
C37_PointerAndLength ==
    /\ ub # "oob"
    /\ \A t \in Threads :
          /\ (InTable(t) /\ loc[t].tbl # NULL)
               => loc[t].tcnt = heap[loc[t].tbl].len
          /\ (pc[t] \in {"mb_state", "mb_lock", "mb_tomb"}
                  /\ loc[t].old # NULL)
               => loc[t].idx < heap[loc[t].old].len

\* thread t is inside an operation that it has invoked
Invoked(t) == pc[t] \notin {"idle", "crashed"}

\* C38: no interleaving of put / get / delete reaches a deadlock: no thread
\* ever waits for a slot lock that it holds itself, and under fair scheduling
\* every invoked operation returns to its caller (unless the run has
\* executed undefined behaviour).
C38_EveryOperationReturns ==
    /\ [](\A t \in Threads : ~SelfBlocked(t))
    /\ \A t \in Threads : Invoked(t) ~> (~Invoked(t) \/ ub # "none")

\* the slots of array a that thread t, inside finish_resize, has not yet
\* passed to bucket_destroy
ToDestroy(t, a) == {j \in 0..(heap[a].len - 1) : j >= loc[t].i}

\* C39: finish_resize never destroys a live entry: while it reclaims the old
\* array (the bucket_destroy loop and the free), no slot that it has not yet
\* destroyed is OCCUPIED.
C39_NoLiveEntryDestroyed ==
    \A t \in Threads :
        (pc[t] = "fr_destroy" /\ loc[t].old # NULL)
        => IF heap[loc[t].old].alive
           THEN \A j \in ToDestroy(t, loc[t].old) :
                   bucket_state(Bkt(loc[t].old, j)) # BUCKET_OCCUPIED
           ELSE TRUE

\* the threads inside migrate_some_buckets between their increment of
\* migrate_workers and their decrement
Workers ==
    {t \in Threads :
        \/ pc[t] \in {"msb_load_old", "msb_load_cnt", "msb_claim", "msb_dec"}
        \/ pc[t] # "crashed" /\ InMigrateBucket(t)}

\* C40: as long as no undefined behaviour has been executed, migrate_workers
\* equals the number of threads inside migrate_some_buckets between their
\* increment and their decrement: it is never negative and it is 0 whenever
\* no operation is in flight.
C40_WorkersCounted ==
    ub = "none"
    => /\ migrate_workers = Cardinality(Workers)
       /\ migrate_workers >= 0
       /\ Quiescent => migrate_workers = 0

\* both threads are inside migrate_some_buckets, one of them in migrate_bucket
\* and the other on its way out past the end of the old array
C40_Witness ==
    /\ ub = "none" /\ migrate_workers = 2
    /\ \E t, u \in Threads :
          /\ InMigrateBucket(t)
          /\ pc[u] = "msb_dec" /\ loc[u].fin

====
